---- MODULE Spec2Model ----
(***************************************************************************)
(* Review orchestration pipeline of the AI code reviewer                   *)
(* (ReviewService.executeReview), with the content cleaner it uses for     *)
(* sizing and the AI client it calls for every reviewed file.              *)
(*                                                                         *)
(* File paths and file contents are sequences of one-character strings,    *)
(* so that the string operations of the source (toLowerCase, endsWith,     *)
(* split, replace with a regular expression, trim) are computed and not    *)
(* assumed.                                                                *)
(***************************************************************************)
EXTENDS Integers, Sequences, FiniteSets, TLC

\* ------------------------------------------------------------------ bounds

\* Largest number of changed files a pull request of the model holds.
MaxFiles == 2

\* ------------------------------------------------------- program constants

\* ReviewService.ts:78
MAX_REVIEW_COMMENTS == 15

\* ReviewService.ts:96, the red-flag threshold on the cleaned line count.
RED_FLAG_LINES == 1000

\* reviewWithAI retries a rate-limited call while attempt <= MAX_RETRY_ATTEMPT.
MAX_RETRY_ATTEMPT == 3

\* ReviewService.ts:126, the inter-file delay in milliseconds.
INTER_FILE_DELAY_MS == 1000

\* The priority of a severity that SEVERITY_PRIORITY does not list (`?? 3`).
UNKNOWN_PRIORITY == 3

\* A property that is absent (startLine / endLine of a red-flag comment).
undefined == -1

\* A null string (repoGuidelines before and without a fetched document).
null == "<null>"

\* ------------------------------------------------------------ characters

\* JavaScript's \s and String.prototype.trim, on the characters of the model.
WS == {" ", "\t", "\n", "\r"}

\* The class [ \t] of the trailing-space pattern.
SpTab == {" ", "\t"}

\* With the m flag, $ matches before a line terminator and at the end.
LineTerm == {"\n", "\r"}

Upper == <<"A","B","C","D","E","F","G","H","I","J","K","L","M","N","O","P","Q","R","S","T","U","V","W","X","Y","Z">>

Lower == <<"a","b","c","d","e","f","g","h","i","j","k","l","m","n","o","p","q","r","s","t","u","v","w","x","y","z">>

\* String.prototype.toLowerCase, one character.
LowerChar(c) ==
    IF \E k \in 1..Len(Upper) : Upper[k] = c
    THEN Lower[CHOOSE k \in 1..Len(Upper) : Upper[k] = c]
    ELSE c

toLowerCase(s) == [i \in 1..Len(s) |-> LowerChar(s[i])]

\* pat occurs in s at position p.
MatchAt(s, p, pat) ==
    /\ p >= 1
    /\ p + Len(pat) - 1 <= Len(s)
    /\ \A k \in 1..Len(pat) : s[p + k - 1] = pat[k]

\* String.prototype.endsWith
endsWith(s, suffix) == MatchAt(s, Len(s) - Len(suffix) + 1, suffix)

\* The first position >= from at which pat occurs in s, 0 when there is none.
FirstAt(s, from, pat) ==
    IF \E q \in from..Len(s) : MatchAt(s, q, pat)
    THEN CHOOSE q \in from..Len(s) :
            MatchAt(s, q, pat) /\ \A r \in from..(q - 1) : ~MatchAt(s, r, pat)
    ELSE 0

\* s without the characters whose positions are in gone.
Drop(s, gone) ==
    LET idx == [i \in 1..Len(s) |-> i]
        Keep(i) == i \notin gone
        kept == SelectSeq(idx, Keep)
    IN [k \in 1..Len(kept) |-> s[kept[k]]]

\* String.prototype.trim
Trim(s) ==
    LET nz == {i \in 1..Len(s) : s[i] \notin WS}
    IN IF nz = {} THEN <<>>
       ELSE LET a == CHOOSE i \in nz : \A j \in 1..(i - 1) : s[j] \in WS
                b == CHOOSE i \in nz : \A j \in (i + 1)..Len(s) : s[j] \in WS
            IN SubSeq(s, a, b)

\* s.split('\n').length
SplitLength(s) == Cardinality({i \in 1..Len(s) : s[i] = "\n"}) + 1

\* --------------------------------------------- codeCleaner.cleanCodeContent

\* The matches of /open[\s\S]*?close/g in s from position `from` on, as
\* <<first, last>> position pairs: leftmost first, each match the shortest
\* one from its start, the search resuming after the match.
RECURSIVE BlockSpans(_, _, _, _)
BlockSpans(s, from, open, close) ==
    LET p == FirstAt(s, from, open)
        q == IF p = 0 THEN 0 ELSE FirstAt(s, p + Len(open), close)
    IN IF p = 0 \/ q = 0 THEN {}
       ELSE {<<p, q + Len(close) - 1>>}
                \cup BlockSpans(s, q + Len(close), open, close)

\* s.replace(/open[\s\S]*?close/g, '')
RemoveBlocks(s, open, close) ==
    LET sp == BlockSpans(s, 1, open, close)
    IN IF sp = {} THEN s
       ELSE Drop(s, {i \in 1..Len(s) : \E iv \in sp : iv[1] <= i /\ i <= iv[2]})

\* s.replace(/[ \t]+$/gm, ''): a space or tab goes when only spaces and tabs
\* separate it from the end of its line.
StripTrailing(s) ==
    Drop(s, {i \in 1..Len(s) :
                /\ s[i] \in SpTab
                /\ \E d \in 1..(Len(s) - i + 1) :
                      /\ \A k \in i..(i + d - 1) : s[k] \in SpTab
                      /\ (i + d > Len(s) \/ s[i + d] \in LineTerm)})

\* The distance from position i of a whitespace run back to the run's start.
RunBack(s, i) ==
    CHOOSE d \in 0..(i - 1) :
        /\ \A k \in (i - d)..i : s[k] \in WS
        /\ (i - d = 1 \/ s[i - d - 1] \notin WS)

\* The distance from position i of a whitespace run on to the run's end.
RunAhead(s, i) ==
    CHOOSE d \in 0..(Len(s) - i) :
        /\ \A k \in i..(i + d) : s[k] \in WS
        /\ (i + d = Len(s) \/ s[i + d + 1] \notin WS)

\* s.replace(/\n\s*\n\s*\n/g, '\n\n'): a match starts at the first newline of
\* a maximal whitespace run holding three or more newlines and, \s* being
\* greedy, ends at the run's last newline; the two newlines of the
\* replacement stand for the first and the last one, all between them goes.
CollapseBlankLines(s) ==
    Drop(s, {i \in 1..Len(s) :
                /\ s[i] \in WS
                /\ LET a == i - RunBack(s, i)
                       b == i + RunAhead(s, i)
                       nls == {j \in a..b : s[j] = "\n"}
                   IN /\ Cardinality(nls) >= 3
                      /\ \E j \in nls : j < i
                      /\ \E j \in nls : j > i})

BlockOpen == <<"/", "*">>

BlockClose == <<"*", "/">>

TripleDouble == <<"\"", "\"", "\"">>

TripleSingle == <<"'", "'", "'">>

DotPy == <<".", "p", "y">>

DotMd == <<".", "m", "d">>

\* codeCleaner.ts: the cleaned text whose line count sizes the file.
cleanCodeContent(content, path) ==
    LET lowerPath == toLowerCase(path)
        c1 == RemoveBlocks(content, BlockOpen, BlockClose)
        c2 == IF endsWith(lowerPath, DotPy)
              THEN RemoveBlocks(RemoveBlocks(c1, TripleDouble, TripleDouble),
                                TripleSingle, TripleSingle)
              ELSE c1
        c3 == StripTrailing(c2)
        c4 == CollapseBlankLines(c3)
    IN Trim(c4)

\* ------------------------------------------------- the pull request's files

\* The paths a changed file of the model can have.
Paths == {"src/a.ts", "lib/big.ts", "src/gaps.ts", "docs/BIG.MD", "package.json"}

\* The characters of a path.
Chars(path) ==
    CASE path = "src/a.ts" -> <<"s","r","c","/","a",".","t","s">>
      [] path = "lib/big.ts" -> <<"l","i","b","/","b","i","g",".","t","s">>
      [] path = "src/gaps.ts" -> <<"s","r","c","/","g","a","p","s",".","t","s">>
      [] path = "docs/BIG.MD" -> <<"d","o","c","s","/","B","I","G",".","M","D">>
      [] path = "package.json" -> <<"p","a","c","k","a","g","e",".","j","s","o","n">>

\* n lines "x", each ended by a newline.
CodeLines(n) == [i \in 1..(2 * n) |-> IF i % 2 = 1 THEN "x" ELSE "\n"]

\* n lines "x" with one empty line after each.
SpacedLines(n) == [i \in 1..(3 * n) |-> IF i % 3 = 1 THEN "x" ELSE "\n"]

\* What the host holds at each path (getFileContent's value when it returns).
FileContent(path) ==
    CASE path = "src/a.ts" ->
            <<"x", " ", "\n", "/", "*", "\n", "c", "\n", "*", "/", "\n", "\n", "\n", "y", "\n">>
      [] path = "lib/big.ts" -> CodeLines(RED_FLAG_LINES + 1)
      [] path = "src/gaps.ts" -> SpacedLines(RED_FLAG_LINES \div 2 + 1)
      [] path = "docs/BIG.MD" -> CodeLines(RED_FLAG_LINES + 1)
      [] path = "package.json" -> <<"{", "}", "\n">>

\* ignoreFiles.ts: the entries of ignoredFiles that a file name of the model
\* can equal or end with.
ignoredFiles ==
    { <<"p","a","c","k","a","g","e",".","j","s","o","n">>,
      <<"p","a","c","k","a","g","e","-","l","o","c","k",".","j","s","o","n">>,
      <<"R","E","A","D","M","E",".","m","d">>,
      <<"s","e","t","u","p",".","p","y">>,
      <<".","p","y","c">>,
      <<".","m","i","n",".","j","s">> }

\* path.split('/').pop()
LastSegment(s) ==
    LET slashes == {i \in 1..Len(s) : s[i] = "/"}
    IN IF slashes = {} THEN s
       ELSE SubSeq(s, (CHOOSE i \in slashes : \A j \in slashes : j <= i) + 1, Len(s))

\* ignoreFiles.ts: the test shouldIgnoreFile makes on a path.
matchesIgnored(path) ==
    LET fileName == toLowerCase(LastSegment(Chars(path)))
    IN \E ignored \in ignoredFiles :
          LET lowerIgnored == toLowerCase(ignored)
          IN fileName = lowerIgnored \/ endsWith(fileName, lowerIgnored)

\* The verdict of shouldIgnoreFile on every path, computed once.
IgnoredPaths == {p \in Paths : matchesIgnored(p)}

\* ignoreFiles.ts: shouldIgnoreFile
shouldIgnoreFile(path) == path \in IgnoredPaths

\* ReviewService.ts:95
isMarkdown(path) == endsWith(toLowerCase(Chars(path)), DotMd)

\* ReviewService.ts:92-93, for the content the host holds at path.
cleanedLineCount(path) == SplitLength(cleanCodeContent(FileContent(path), Chars(path)))

\* cleanedLineCount of every path, computed once.
LineCountOf == [p \in Paths |-> cleanedLineCount(p)]

\* The paths with isMarkdown, computed once.
MarkdownPaths == {p \in Paths : isMarkdown(p)}

\* ReviewService.ts:96
exceedsLimit(path) == LineCountOf[path] > RED_FLAG_LINES /\ path \notin MarkdownPaths

\* The lists of changed files getChangedFiles can return: up to MaxFiles
\* files with different paths, all of the pull request's head commit.
RECURSIVE PathLists(_)
PathLists(n) ==
    IF n = 0 THEN {<<>>}
    ELSE LET shorter == PathLists(n - 1)
         IN shorter \cup {Append(l, p) : l \in {m \in shorter : Len(m) = n - 1},
                                         p \in Paths}

NoRepeat(l) == \A i, j \in 1..Len(l) : l[i] = l[j] => i = j

FileLists ==
    {[i \in 1..Len(l) |-> [path |-> l[i], commitId |-> "head"]] :
        l \in {m \in PathLists(MaxFiles) : NoRepeat(m)}}

\* ------------------------------------------------------------ AI reviews

Finding(line, severity, text) ==
    [startLine |-> line, endLine |-> line + 1, severity |-> severity, comment |-> text]

\* The example of the specification: minor, critical, major, critical.
Reviews4 ==
    << Finding(1, "minor", "f1"), Finding(2, "critical", "f2"),
       Finding(3, "major", "f3"), Finding(4, "critical", "f4") >>

\* Eight findings, one of them of a severity SEVERITY_PRIORITY does not list.
Reviews8 ==
    Reviews4 \o
    << Finding(5, "info", "f5"), Finding(6, "minor", "f6"),
       Finding(7, "major", "f7"), Finding(8, "critical", "f8") >>

\* What reviewWithAI can return for a file: parsed.reviews, or [].
AIReviews == {<<>>, Reviews4, Reviews8}

\* The text of a response of a provider is a sequence of pieces: the fence
\* of three backticks with json, the fence of three backticks, whitespace, a JSON object with the member reviews,
\* a JSON object without it, the JSON text null, and text that is no JSON.
Piece(kind, reviews) == [kind |-> kind, reviews |-> reviews]

FenceJson == Piece("fenceJson", <<>>)

Fence == Piece("fence", <<>>)

Space == Piece("space", <<>>)

Prose == Piece("prose", <<>>)

NullDoc == Piece("null", <<>>)

BareObject == Piece("{}", <<>>)

ReviewsObject(reviews) == Piece("{reviews}", reviews)

\* rawResponse: string | null
Raw(isNull, text) == [isNull |-> isNull, text |-> text]

\* The responses a provider call can return.
RawResponses ==
    { Raw(TRUE, <<>>),
      Raw(FALSE, <<>>),
      Raw(FALSE, <<Space>>),
      Raw(FALSE, <<Prose>>),
      Raw(FALSE, <<Prose, ReviewsObject(Reviews4)>>),
      Raw(FALSE, <<FenceJson, Fence>>),
      Raw(FALSE, <<NullDoc>>),
      Raw(FALSE, <<BareObject>>),
      Raw(FALSE, <<ReviewsObject(<<>>)>>),
      Raw(FALSE, <<ReviewsObject(Reviews4)>>),
      Raw(FALSE, <<Space, ReviewsObject(Reviews4), Space>>),
      Raw(FALSE, <<FenceJson, Space, ReviewsObject(Reviews8), Space, Fence>>) }

\* Findings whose comments quote code between fences.
QuotingReviews ==
    << Finding(1, "major", "~~~x~~~"), Finding(2, "minor", "~~~json{}~~~") >>

\* Responses whose JSON text stands between fences.
FencedResponses ==
    { Raw(FALSE, <<Fence, ReviewsObject(Reviews4), Fence>>),
      Raw(FALSE, <<FenceJson, ReviewsObject(<<>>), Fence>>),
      Raw(FALSE, <<FenceJson, BareObject, Fence>>),
      Raw(FALSE, <<FenceJson, ReviewsObject(QuotingReviews), Fence>>),
      Raw(FALSE, <<ReviewsObject(QuotingReviews)>>) }

\* aiClient.ts: !rawResponse
isEmptyResponse(raw) == raw.isNull \/ raw.text = <<>>

\* s.replace(/pat/g, ""): s without the matches of pat, leftmost first.
RECURSIVE RemoveAll(_, _)
RemoveAll(s, pat) ==
    LET p == FirstAt(s, 1, pat)
    IN IF p = 0 THEN s
       ELSE SubSeq(s, 1, p - 1) \o RemoveAll(SubSeq(s, p + Len(pat), Len(s)), pat)

\* The comments of findings that quote code between fences, and what is
\* left of them without the fences. In the strings of the model ~ stands
\* for a backtick.
QuotingComments == {"~~~x~~~", "~~~json{}~~~", "x", "{}"}

\* The characters of a comment that quotes code.
CommentChars(comment) ==
    CASE comment = "~~~x~~~" -> <<"~", "~", "~", "x", "~", "~", "~">>
      [] comment = "~~~json{}~~~" ->
            <<"~", "~", "~", "j", "s", "o", "n", "{", "}", "~", "~", "~">>
      [] comment = "x" -> <<"x">>
      [] comment = "{}" -> <<"{", "}">>

\* The fences as characters.
FenceChars == <<"~", "~", "~">>

FenceJsonChars == <<"~", "~", "~", "j", "s", "o", "n">>

\* aiClient.ts: the two replace calls, on the text of a comment inside the
\* JSON text: they take out every fence, wherever it stands.
stripFencesInComment(comment) ==
    IF comment \notin QuotingComments THEN comment
    ELSE LET left == RemoveAll(RemoveAll(CommentChars(comment), FenceJsonChars),
                               FenceChars)
         IN CHOOSE c \in QuotingComments : CommentChars(c) = left

\* aiClient.ts: the two replace calls that take the fences out: the pieces
\* that are fences go, and so does every fence inside a JSON text.
stripFences(text) ==
    LET kept == SelectSeq(text, LAMBDA p : p \notin {FenceJson, Fence})
    IN [k \in 1..Len(kept) |->
          [kept[k] EXCEPT !.reviews =
              [i \in 1..Len(@) |->
                  [@[i] EXCEPT !.comment = stripFencesInComment(@)]]]]

\* String.prototype.trim on the pieces.
trimPieces(text) ==
    LET solid == {i \in 1..Len(text) : text[i] # Space}
    IN IF solid = {} THEN <<>>
       ELSE SubSeq(text, CHOOSE i \in solid : \A j \in solid : i <= j,
                         CHOOSE i \in solid : \A j \in solid : j <= i)

\* JSON.parse returns a value for one JSON text and throws for anything else.
jsonParses(text) == Len(text) = 1 /\ text[1].kind \in {"null", "{}", "{reviews}"}

\* aiClient.ts: the statements of the inner try throw (JSON.parse on text
\* that is no JSON, or parsed.reviews on the value null).
parseThrows(raw) ==
    LET cleanedJson == trimPieces(stripFences(raw.text))
    IN ~jsonParses(cleanedJson) \/ cleanedJson[1] = NullDoc

\* aiClient.ts: from the test !rawResponse to the end of the inner
\* try/catch: what reviewWithAI returns for a response.
parseResponse(raw) ==
    IF isEmptyResponse(raw) \/ parseThrows(raw) THEN <<>>
    ELSE trimPieces(stripFences(raw.text))[1].reviews

\* aiClient.ts: the base of the wait before a retry, in ms.
BACKOFF_STEP_MS == 2000

\* aiClient.ts: Math.floor(Math.random() * 1000) is an integer below this.
JITTER_LIMIT == 1000

\* The jitters of the model: the least, the greatest and one between.
Jitters == {0, JITTER_LIMIT \div 2, JITTER_LIMIT - 1}

\* env.AI_PROVIDER, in lower case as envVariables.ts leaves it.
Providers == {"openai", "gemini", "azure", "x429"}

\* providers.ts: PROVIDER_MAPPING
PROVIDER_MAPPING ==
    [p \in {"openai", "gpt", "chatgpt", "anthropic", "claude", "google", "gemini"} |->
        CASE p \in {"openai", "gpt", "chatgpt"} -> "openai"
          [] p \in {"anthropic", "claude"} -> "anthropic"
          [] p \in {"google", "gemini"} -> "google"]

\* An error object: its status, its statusCode and its message.
Err(status, statusCode, message) ==
    [status |-> status, statusCode |-> statusCode, message |-> message]

NoError == Err(undefined, undefined, <<>>)

\* The errors a provider call can throw: the rate-limit signal as status,
\* as statusCode and within the message, and three errors without it.
ProviderErrors ==
    { Err(429, undefined, <<"l","i","m","i","t">>),
      Err(undefined, 429, <<>>),
      Err(undefined, undefined, <<"g","o","t"," ","4","2","9","!">>),
      Err(500, undefined, <<"4","2"," ","9">>),
      Err(undefined, 503, <<"d","o","w","n">>),
      Err(undefined, undefined, <<>>) }

\* aiClient.ts: new Error("Unsupported AI provider: " + envProvider)
UnsupportedProvider(provider) ==
    Err(undefined, undefined,
        <<"U","n","s","u","p","p","o","r","t","e","d",":"," ">> \o
        (CASE provider = "azure" -> <<"a","z","u","r","e">>
           [] provider = "x429" -> <<"x","4","2","9">>
           [] OTHER -> <<"?">>))

\* String.prototype.includes
includes(s, pat) == \E p \in 1..Len(s) : MatchAt(s, p, pat)

\* isRateLimit that takes every error for a rate-limit signal.
isRateLimit_anyError(err) == err = err

\* aiClient.ts: err.status === 429 || err.statusCode === 429 ||
\* (err.message && err.message.includes("429"))
isRateLimit(err) ==
    \/ err.status = 429
    \/ err.statusCode = 429
    \/ (err.message # <<>> /\ includes(err.message, <<"4","2","9">>))

\* The absent response of a step that is no answered provider call.
NoResponse == Raw(TRUE, <<>>)

\* One step of an invocation, recorded for the properties: a provider call
\* with its arguments and its answer, the dispatch that threw, or a wait.
Event(st, kind, ms, answer, raw, err) ==
    [kind |-> kind, attempt |-> st.attempt, ms |-> ms, fileName |-> st.fileName,
     content |-> st.content, customGuidelines |-> st.customGuidelines,
     answer |-> answer, raw |-> raw, err |-> err]

\* aiClient.ts: reviewWithAI(fileName, content, customGuidelines), attempt = 1,
\* with env.AI_PROVIDER = provider.
reviewWithAI(provider, fileName, content, customGuidelines) ==
    [pc |-> "Calling", provider |-> provider, fileName |-> fileName,
     content |-> content, customGuidelines |-> customGuidelines,
     given |-> <<fileName, content, customGuidelines>>,
     attempt |-> 1, events |-> <<>>, result |-> <<>>, error |-> NoError]

\* No invocation is under way.
NoInvocation ==
    [pc |-> "Idle", provider |-> "", fileName |-> "", content |-> "",
     customGuidelines |-> null, given |-> <<"", "", null>>,
     attempt |-> 0, events |-> <<>>, result |-> <<>>, error |-> NoError]

\* No document is being cleaned.
NoDocument ==
    [pc |-> "Idle", content |-> <<>>, path |-> <<>>, intermediate |-> <<>>,
     cleanedContent |-> <<>>, lineMap |-> <<>>]

\* The host, the deliveries and the hook, where they are not looked at.
NoHost == [adapter |-> "none"]

NoRuns == <<>>

NoHook == [pc |-> "none"]

NoPost == [pc |-> "none"]

NoWeb == [pc |-> "none"]

\* What the guidelines fetch can return.
GuidelineDocs == {null, "", "  ", "rules"}

\* The characters of a guidelines document.
DocChars(document) ==
    CASE document = "" -> <<>>
      [] document = "  " -> <<" ", " ">>
      [] document = "rules" -> <<"r", "u", "l", "e", "s">>

\* A string in a condition: null, undefined and the empty string are false,
\* every other string is true.
Truthy(s) == s # null /\ Len(DocChars(s)) > 0

\* reviewPrompts.ts:36-44: the section of the user prompt that says how to
\* do the review: the custom guidelines when customGuidelines is truthy, the
\* default rules otherwise.
guidelinesSection(customGuidelines) ==
    IF Truthy(customGuidelines)
    THEN [rules |-> "custom", text |-> customGuidelines]
    ELSE [rules |-> "default", text |-> "defaultReviewGuidelines"]

\* What a host operation with a boolean answer can do.
HostAnswers == {"true", "false", "throw"}

\* What one provider call can do: return text that parses to reviews, fail
\* with a rate-limit signal (429), or fail otherwise.
ProviderOutcomes == {"ok", "rateLimit", "error"}

\* ------------------------------------------------------------------ state

VARIABLES
    env,    \* the configuration: AI_REVIEW_GUIDELINES, a path or null
    pr,     \* the host's pull request: the changed files of its head commit
    run,    \* one run of ReviewService.executeReview: its locals and its calls
    twin,   \* the same run, given the same answers, but whose lockPR returned
    ai,     \* one top-level invocation of reviewWithAI, taken by itself
    doc,    \* one call of cleanCodeContent with a line map, taken by itself
    host,   \* the pull request's state on the code host, shared by the runs
    runs,   \* the runs of executeReview that two webhook deliveries started
    hook,   \* the review of one file by the PrReviewHook handler
    post,   \* one call that posts a comment, on an adapter or on azdoClient
    web     \* one request to the GitHubReviewHook handler

vars == <<env, pr, run, twin, ai, doc, host, runs, hook, post, web>>

\* The path of the guidelines document when one is configured.
GuidelinesPath == ".ai-review-rules.md"

\* One call of a host operation or of reviewWithAI: its arguments, and what
\* it answered ("throw" when it threw; "" for reviewWithAI, whose answer
\* comes with the provider's).
Call(op, path, startLine, endLine, text, ret) ==
    [op |-> op, path |-> path, startLine |-> startLine, endLine |-> endLine,
     text |-> text, ret |-> ret]

Logged(st, call) == [st EXCEPT !.calls = Append(@, call)]

\* The run ends at `stage`: it returns, or an error propagates out of it.
End(st, how, stage) == [st EXCEPT !.pc = "Done", !.outcome = how, !.endedAt = stage]

\* The outcome of one file of the loop, recorded for the properties.
Result(path, kind, n) == [path |-> path, kind |-> kind, n |-> n]

\* The run before its first statement (ReviewService.ts:76-82 for the locals).
InitRun ==
    [pc |-> "Validating", outcome |-> "running", endedAt |-> "",
     locked |-> FALSE, files |-> <<>>, idx |-> 0, repoGuidelines |-> null,
     hasRedFlags |-> FALSE, hasIssues |-> FALSE, allComments |-> <<>>,
     collected |-> <<>>, results |-> <<>>, topComments |-> <<>>, nextPost |-> 0,
     attempt |-> 0, answer |-> "", status |-> "", calls |-> <<>>,
     delays |-> <<>>]

\* ------------------------------------------------ executeReview, by stage

\* ReviewService.ts:31-35
validateWebhook(st, res) ==
    LET s1 == Logged(st, Call("validateWebhook", "", undefined, undefined, "", res))
    IN CASE res = "throw" -> End(s1, "threw", "Validating")
         [] res = "false" -> End(s1, "returned", "Validating")
         [] res = "true" -> [s1 EXCEPT !.pc = "CheckingEligibility"]

\* shouldProcessPR whose answer is not tested: the run goes on to the lock.
shouldProcessPR_unchecked(st, res) ==
    LET s1 == Logged(st, Call("shouldProcessPR", "", undefined, undefined, "", res))
    IN IF res = "throw" THEN End(s1, "threw", "CheckingEligibility")
       ELSE [s1 EXCEPT !.pc = "Locking"]

\* ReviewService.ts:37-41
shouldProcessPR(st, res) ==
    LET s1 == Logged(st, Call("shouldProcessPR", "", undefined, undefined, "", res))
    IN CASE res = "throw" -> End(s1, "threw", "CheckingEligibility")
         [] res = "false" -> End(s1, "returned", "CheckingEligibility")
         [] res = "true" -> [s1 EXCEPT !.pc = "Locking"]

\* lockPR as it would be without the try/catch of ReviewService.ts:43-48: the
\* error of the adapter leaves executeReview.
lockPR_abort(st, ok) ==
    LET s1 == Logged(st, Call("lockPR", "", undefined, undefined, "",
                          IF ok THEN "ok" ELSE "throw"))
    IN IF ok THEN [s1 EXCEPT !.pc = "FetchingFiles", !.locked = TRUE]
       ELSE End(s1, "threw", "Locking")

\* ReviewService.ts:43-48: the lock is a write on the host; when it throws
\* the error is logged and the run goes on.
lockPR(st, ok) ==
    LET s1 == Logged(st, Call("lockPR", "", undefined, undefined, "",
                          IF ok THEN "ok" ELSE "throw"))
    IN [s1 EXCEPT !.pc = "FetchingFiles", !.locked = ok]

\* getChangedFiles without the return of ReviewService.ts:54: with no file
\* the run goes past the loop to the aggregation.
getChangedFiles_noEarlyExit(st, res, files, guidelines) ==
    LET s1 == Logged(st, Call("getChangedFiles", "", undefined, undefined, "", res))
    IN IF res = "throw" THEN End(s1, "threw", "FetchingFiles")
       ELSE IF Len(files) = 0
            THEN [s1 EXCEPT !.files = files, !.idx = 1, !.pc = "Aggregating"]
            ELSE [s1 EXCEPT !.files = files, !.idx = 1,
                            !.pc = IF guidelines # null THEN "FetchingGuidelines"
                                   ELSE "PerFileLoop"]

\* ReviewService.ts:50-58, 72-74
getChangedFiles(st, res, files, guidelines) ==
    LET s1 == Logged(st, Call("getChangedFiles", "", undefined, undefined, "", res))
    IN IF res = "throw" THEN End(s1, "threw", "FetchingFiles")
       ELSE IF Len(files) = 0
            THEN End([s1 EXCEPT !.files = files], "returned", "FetchingFiles")
            ELSE [s1 EXCEPT !.files = files, !.idx = 1,
                            !.pc = IF guidelines # null THEN "FetchingGuidelines"
                                   ELSE "PerFileLoop"]

\* ReviewService.ts:59-71: the document comes from the first file's commit;
\* an error of the fetch is logged and leaves repoGuidelines null.
fetchGuidelines(st, res, guidelines) ==
    LET s1 == Logged(st, Call("getFileContent", guidelines, undefined, undefined,
                               st.files[1].commitId, res))
    IN [s1 EXCEPT !.pc = "PerFileLoop",
                  !.repoGuidelines = IF res = "throw" THEN null ELSE res]

\* The for loop moves to the next file, or ends.
NextFile(st) ==
    [st EXCEPT !.idx = @ + 1,
               !.answer = "",
               !.pc = IF st.idx + 1 > Len(st.files) THEN "Aggregating"
                      ELSE "PerFileLoop"]

\* skipIgnored that leaves the loop body at its end, through the delay.
skipIgnored_delayed(st) ==
    [st EXCEPT !.pc = "InterFileDelay",
               !.results = Append(@, Result(st.files[st.idx].path, "ignored", 0))]

\* ReviewService.ts:85-88: `continue`, without the delay.
skipIgnored(st) ==
    NextFile([st EXCEPT !.results = Append(@, Result(st.files[st.idx].path, "ignored", 0))])

\* ReviewService.ts:98-102
redFlagComment(path) ==
    [filePath |-> path, startLine |-> undefined, endLine |-> undefined,
     severity |-> "critical", comment |-> "Architectural Red Flag"]

\* ReviewService.ts:110-116
aiComment(path, review) ==
    [filePath |-> path, startLine |-> review.startLine, endLine |-> review.endLine,
     severity |-> review.severity, comment |-> review.comment]

\* catchFileError that goes to the next file at once, as if the delay were
\* the last statement of the try block.
catchFileError_noDelay(st, kind) ==
    NextFile([st EXCEPT !.attempt = 0,
                        !.results = Append(@, Result(st.files[st.idx].path, kind, 0))])

\* catchFileError that takes the failed file for one with issues.
catchFileError_countsAsIssue(st, kind) ==
    [st EXCEPT !.pc = "InterFileDelay", !.attempt = 0, !.hasIssues = TRUE,
               !.results = Append(@, Result(st.files[st.idx].path, kind, 0))]

\* The per-file error is not caught: it propagates out of the loop.
catchFileError_rethrow(st, kind) ==
    End([st EXCEPT !.attempt = 0,
                   !.results = Append(@, Result(st.files[st.idx].path, kind, 0))],
        "threw", "PerFileLoop")

\* ReviewService.ts:123-125: the catch of the per-file try.
catchFileError(st, kind) ==
    [st EXCEPT !.pc = "InterFileDelay", !.attempt = 0,
               !.results = Append(@, Result(st.files[st.idx].path, kind, 0))]

\* addRedFlag that collects the comment and leaves hasRedFlags as it was.
addRedFlag_flagNotSet(st, path) ==
    [st EXCEPT !.allComments = Append(@, redFlagComment(path)),
               !.collected = Append(@, redFlagComment(path)),
               !.results = Append(@, Result(path, "redFlag", 1)),
               !.pc = "InterFileDelay"]

\* ReviewService.ts:96-103
addRedFlag(st, path) ==
    [st EXCEPT !.hasRedFlags = TRUE,
               !.allComments = Append(@, redFlagComment(path)),
               !.collected = Append(@, redFlagComment(path)),
               !.results = Append(@, Result(path, "redFlag", 1)),
               !.pc = "InterFileDelay"]

\* ReviewService.ts:91-106: the content fetch, the sizing of the cleaned
\* content, and either the red flag or the start of the AI review.
getFileContent(st, res) ==
    LET file == st.files[st.idx]
        s1 == Logged(st, Call("getFileContent", file.path, undefined, undefined,
                               file.commitId, res))
    IN IF res = "throw" THEN catchFileError(s1, "fetchError")
       ELSE IF exceedsLimit(file.path) THEN addRedFlag(s1, file.path)
       ELSE [Logged(s1, Call("reviewWithAI", file.path, undefined, undefined,
                              st.repoGuidelines, ""))
                EXCEPT !.pc = "AIReview", !.attempt = 1]

\* addReviews that posts the file's first finding at once, inside the loop.
addReviews_postingInLoop(st, aiReviews) ==
    LET path == st.files[st.idx].path
        found == [k \in 1..Len(aiReviews) |-> aiComment(path, aiReviews[k])]
        s1 == IF Len(found) = 0 THEN st
              ELSE Logged(st, Call("postComment", path, found[1].startLine,
                                   found[1].endLine, found[1].comment, "ok"))
    IN [s1 EXCEPT !.hasIssues = IF Len(aiReviews) > 0 THEN TRUE ELSE @,
                  !.allComments = @ \o found,
                  !.collected = @ \o found,
                  !.results = Append(@, Result(path, "reviewed", Len(aiReviews))),
                  !.attempt = 0,
                  !.pc = "InterFileDelay"]

\* addReviews without the test reviews.length > 0 of ReviewService.ts:108:
\* hasIssues is set for every review that returns.
addReviews_alwaysIssues(st, aiReviews) ==
    LET path == st.files[st.idx].path
        found == [k \in 1..Len(aiReviews) |-> aiComment(path, aiReviews[k])]
    IN [st EXCEPT !.hasIssues = TRUE,
                  !.allComments = @ \o found,
                  !.collected = @ \o found,
                  !.results = Append(@, Result(path, "reviewed", Len(aiReviews))),
                  !.attempt = 0,
                  !.pc = "InterFileDelay"]

\* ReviewService.ts:107-121
addReviews(st, aiReviews) ==
    LET path == st.files[st.idx].path
        found == [k \in 1..Len(aiReviews) |-> aiComment(path, aiReviews[k])]
    IN [st EXCEPT !.hasIssues = IF Len(aiReviews) > 0 THEN TRUE ELSE @,
                  !.allComments = @ \o found,
                  !.collected = @ \o found,
                  !.results = Append(@, Result(path, "reviewed", Len(aiReviews))),
                  !.attempt = 0,
                  !.pc = "InterFileDelay"]

\* What the last provider call of the file under review answered, recorded
\* for the properties: text that gave reviews, text that is empty or does
\* not parse, a rate-limit failure, another failure.
AnswerKind(outcome, raw) ==
    CASE outcome = "ok" ->
            IF isEmptyResponse(raw) \/ parseThrows(raw) THEN "malformed" ELSE "parsed"
      [] OTHER -> outcome

\* callProvider whose answer is not awaited: the loop goes on to the delay
\* and the next file while the provider call is still out.
callProvider_notAwaited(st, outcome, raw) == [st EXCEPT !.pc = "InterFileDelay"]

\* callProvider with the parse inside the retried part: a response that is
\* empty or does not parse is taken for a failure to retry.
callProvider_parseRetried(st, outcome, raw) ==
    LET s0 == [st EXCEPT !.answer = AnswerKind(outcome, raw)]
    IN CASE outcome = "ok" /\ s0.answer = "parsed" -> addReviews(s0, parseResponse(raw))
         [] outcome = "rateLimit" \/ (outcome = "ok" /\ s0.answer = "malformed") ->
               IF st.attempt <= MAX_RETRY_ATTEMPT THEN [s0 EXCEPT !.pc = "Backoff"]
               ELSE catchFileError(s0, "rateLimitError")
         [] outcome = "error" -> catchFileError(s0, "aiError")

\* aiClient.ts, reviewWithAI: one provider call of the current attempt. A
\* response is parsed and returned, [] for one that is empty or does not
\* parse. A rate-limit failure is retried while attempt <= 3; any other
\* failure, and a rate-limit failure past the budget, is thrown to the
\* per-file catch.
callProvider(st, outcome, raw) ==
    LET s0 == [st EXCEPT !.answer = AnswerKind(outcome, raw)]
    IN CASE outcome = "ok" ->
               LET s1 == addReviews(s0, parseResponse(raw))
               IN IF s0.answer = "malformed"
                  THEN [s1 EXCEPT !.results[Len(s1.results)].kind = "unparsed"]
                  ELSE s1
         [] outcome = "rateLimit" ->
               IF st.attempt <= MAX_RETRY_ATTEMPT THEN [s0 EXCEPT !.pc = "Backoff"]
               ELSE catchFileError(s0, "rateLimitError")
         [] outcome = "error" -> catchFileError(s0, "aiError")

\* The retry that calls again with the attempt number it had.
retryAfterWait_sameAttempt(st) == [st EXCEPT !.pc = "AIReview"]

\* aiClient.ts, reviewWithAI: the wait is over, the call is made again.
retryAfterWait(st) == [st EXCEPT !.pc = "AIReview", !.attempt = @ + 1]

\* ReviewService.ts:126: the wait, in milliseconds, recorded when it is over.
interFileDelay(st) == NextFile([st EXCEPT !.delays = Append(@, INTER_FILE_DELAY_MS)])

\* ReviewService.ts:79, 130: SEVERITY_PRIORITY[severity] ?? 3
SeverityPriority(severity) ==
    CASE severity = "critical" -> 0
      [] severity = "major" -> 1
      [] severity = "minor" -> 2
      [] OTHER -> UNKNOWN_PRIORITY

\* The comments of priority p, in the order they have in comments.
OfPriority(comments, p) ==
    SelectSeq(comments, LAMBDA c : SeverityPriority(c.severity) = p)

\* No sort: the comments stay in the order of their collection.
sortBySeverity_asCollected(comments) == comments

\* A sort by priority that is not stable: the comments of one priority come
\* out in the reverse of their order.
sortBySeverity_unstable(comments) ==
    LET Reversed(q) == [k \in 1..Len(q) |-> q[Len(q) + 1 - k]]
    IN Reversed(OfPriority(comments, 0)) \o Reversed(OfPriority(comments, 1))
          \o Reversed(OfPriority(comments, 2))
          \o Reversed(OfPriority(comments, UNKNOWN_PRIORITY))

\* ReviewService.ts:130: Array.prototype.sort with the comparator
\* priority(a) - priority(b). The sort is stable (ECMAScript 2019, and the
\* runtime is Node.js 18 or higher), and the priorities are 0, 1, 2 and 3:
\* the result is the comments of priority 0 in their order, then those of
\* priority 1, of priority 2 and of priority 3.
sortBySeverity(comments) ==
    OfPriority(comments, 0) \o OfPriority(comments, 1)
       \o OfPriority(comments, 2) \o OfPriority(comments, UNKNOWN_PRIORITY)

\* No budget: every collected comment is kept.
sliceTop_all(comments) == comments

\* ReviewService.ts:133: allComments.slice(0, MAX_REVIEW_COMMENTS)
sliceTop(comments) ==
    SubSeq(comments, 1, IF Len(comments) < MAX_REVIEW_COMMENTS THEN Len(comments)
                        ELSE MAX_REVIEW_COMMENTS)

\* ReviewService.ts:129-134: the sort is in place.
aggregate(st) ==
    LET sorted == sortBySeverity(st.allComments)
        top == sliceTop(sorted)
    IN [st EXCEPT !.allComments = sorted, !.topComments = top, !.nextPost = 1,
                  !.pc = IF Len(top) = 0 THEN "Finalizing" ELSE "Posting"]

\* ReviewService.ts:136-138: an error of postComment propagates.
postComment(st, ok) ==
    LET c == st.topComments[st.nextPost]
        s1 == Logged(st, Call("postComment", c.filePath, c.startLine, c.endLine,
                               c.comment, IF ok THEN "ok" ELSE "throw"))
    IN IF ~ok THEN End(s1, "threw", "Posting")
       ELSE [s1 EXCEPT !.nextPost = @ + 1,
                       !.pc = IF st.nextPost + 1 > Len(st.topComments)
                              THEN "Finalizing" ELSE "Posting"]

\* finalStatus with the two tests in the wrong order.
finalStatus_issuesFirst(hasRedFlags, hasIssues) ==
    IF hasIssues THEN "commented"
    ELSE IF hasRedFlags THEN "changes_requested" ELSE "approved"

\* ReviewService.ts:140
finalStatus(hasRedFlags, hasIssues) ==
    IF hasRedFlags THEN "changes_requested"
    ELSE IF hasIssues THEN "commented" ELSE "approved"

\* ReviewService.ts:140-147
setFinalStatus(st, ok) ==
    LET status == finalStatus(st.hasRedFlags, st.hasIssues)
        s1 == [Logged(st, Call("setFinalStatus", "", undefined, undefined, status,
                                IF ok THEN "ok" ELSE "throw"))
                  EXCEPT !.status = status]
    IN End(s1, IF ok THEN "returned" ELSE "threw", "Finalizing")

\* ---------------------------------------------------------------- actions

ValidateWebhook ==
    /\ run.pc = "Validating"
    /\ \E res \in HostAnswers :
          /\ run' = validateWebhook(run, res)
          /\ twin' = validateWebhook(twin, res)
    /\ UNCHANGED <<env, pr, ai, doc, host, runs, hook, post, web>>

ShouldProcessPR ==
    /\ run.pc = "CheckingEligibility"
    /\ \E res \in HostAnswers :
          /\ run' = shouldProcessPR(run, res)
          /\ twin' = shouldProcessPR(twin, res)
    /\ UNCHANGED <<env, pr, ai, doc, host, runs, hook, post, web>>

LockPR ==
    /\ run.pc = "Locking"
    /\ \E ok \in BOOLEAN :
          /\ run' = lockPR(run, ok)
          /\ twin' = lockPR(twin, TRUE)
    /\ UNCHANGED <<env, pr, ai, doc, host, runs, hook, post, web>>

GetChangedFiles ==
    /\ run.pc = "FetchingFiles"
    /\ \E res \in {"ok", "throw"} :
          /\ run' = getChangedFiles(run, res, pr, env)
          /\ twin' = getChangedFiles(twin, res, pr, env)
    /\ UNCHANGED <<env, pr, ai, doc, host, runs, hook, post, web>>

FetchGuidelines ==
    /\ run.pc = "FetchingGuidelines"
    /\ \E res \in GuidelineDocs \cup {"throw"} :
          /\ run' = fetchGuidelines(run, res, env)
          /\ twin' = fetchGuidelines(twin, res, env)
    /\ UNCHANGED <<env, pr, ai, doc, host, runs, hook, post, web>>

SkipIgnored ==
    /\ run.pc = "PerFileLoop"
    /\ shouldIgnoreFile(run.files[run.idx].path)
    /\ run' = skipIgnored(run)
    /\ twin' = skipIgnored(twin)
    /\ UNCHANGED <<env, pr, ai, doc, host, runs, hook, post, web>>

GetFileContent ==
    /\ run.pc = "PerFileLoop"
    /\ ~shouldIgnoreFile(run.files[run.idx].path)
    /\ \E res \in {"ok", "throw"} :
          /\ run' = getFileContent(run, res)
          /\ twin' = getFileContent(twin, res)
    /\ UNCHANGED <<env, pr, ai, doc, host, runs, hook, post, web>>

CallProvider ==
    /\ run.pc = "AIReview"
    /\ \E outcome \in ProviderOutcomes :
          \E raw \in IF outcome = "ok" THEN RawResponses ELSE {Raw(TRUE, <<>>)} :
             /\ run' = callProvider(run, outcome, raw)
             /\ twin' = callProvider(twin, outcome, raw)
    /\ UNCHANGED <<env, pr, ai, doc, host, runs, hook, post, web>>

RetryAfterWait ==
    /\ run.pc = "Backoff"
    /\ run' = retryAfterWait(run)
    /\ twin' = retryAfterWait(twin)
    /\ UNCHANGED <<env, pr, ai, doc, host, runs, hook, post, web>>

InterFileDelay ==
    /\ run.pc = "InterFileDelay"
    /\ run' = interFileDelay(run)
    /\ twin' = interFileDelay(twin)
    /\ UNCHANGED <<env, pr, ai, doc, host, runs, hook, post, web>>

Aggregate ==
    /\ run.pc = "Aggregating"
    /\ run' = aggregate(run)
    /\ twin' = aggregate(twin)
    /\ UNCHANGED <<env, pr, ai, doc, host, runs, hook, post, web>>

PostComment ==
    /\ run.pc = "Posting"
    /\ \E ok \in BOOLEAN :
          /\ run' = postComment(run, ok)
          /\ twin' = postComment(twin, ok)
    /\ UNCHANGED <<env, pr, ai, doc, host, runs, hook, post, web>>

SetFinalStatus ==
    /\ run.pc = "Finalizing"
    /\ \E ok \in BOOLEAN :
          /\ run' = setFinalStatus(run, ok)
          /\ twin' = setFinalStatus(twin, ok)
    /\ UNCHANGED <<env, pr, ai, doc, host, runs, hook, post, web>>

Init ==
    /\ host = NoHost
    /\ runs = NoRuns
    /\ hook = NoHook
    /\ post = NoPost
    /\ web = NoWeb
    /\ env \in {null, GuidelinesPath}
    /\ pr \in FileLists
    /\ run = InitRun
    /\ twin = InitRun
    /\ ai = NoInvocation
    /\ doc = NoDocument

Next ==
    \/ ValidateWebhook
    \/ ShouldProcessPR
    \/ LockPR
    \/ GetChangedFiles
    \/ FetchGuidelines
    \/ SkipIgnored
    \/ GetFileContent
    \/ CallProvider
    \/ RetryAfterWait
    \/ InterFileDelay
    \/ Aggregate
    \/ PostComment
    \/ SetFinalStatus

Spec == Init /\ [][Next]_vars

\* Every pending step of the run is eventually taken: the host, the provider
\* and the timers answer.
FairSpec == Spec /\ WF_vars(Next)

\* ------------------------------------------- reviewWithAI, taken by itself

\* aiClient.ts: the catch retries while attempt <= 3, one attempt too many.
shouldRetry_oneMore(err, attempt) == isRateLimit(err) /\ attempt <= MAX_RETRY_ATTEMPT + 1

\* aiClient.ts: isRateLimit && attempt <= 3
shouldRetry(err, attempt) == isRateLimit(err) /\ attempt <= MAX_RETRY_ATTEMPT

\* A wait that does not grow with the attempt.
waitTime_flat(attempt, jitter) == BACKOFF_STEP_MS + jitter

\* aiClient.ts: const waitTime = (attempt * 2000) + jitter
waitTime(attempt, jitter) == (attempt * BACKOFF_STEP_MS) + jitter

\* aiClient.ts: the outer catch. A rate-limit error within the budget waits
\* waitTime; any other error, and any error past the budget, is thrown on.
catchError(st, err, jitter) ==
    IF shouldRetry(err, st.attempt)
    THEN [st EXCEPT !.pc = "Waiting",
                    !.events = Append(@, Event(st, "wait", waitTime(st.attempt, jitter),
                                               "", NoResponse, NoError))]
    ELSE [st EXCEPT !.pc = "Threw", !.error = err]

\* aiClient.ts: the configured provider is none of PROVIDER_MAPPING, and the
\* dispatch throws before any provider is called.
dispatchUnsupported(st, jitter) ==
    LET err == UnsupportedProvider(st.provider)
    IN catchError([st EXCEPT !.events = Append(@, Event(st, "unsupported", 0,
                                                        "error", NoResponse, err))],
                  err, jitter)

\* aiClient.ts: the provider returns text; it is parsed and returned.
providerResponds(st, raw) ==
    [st EXCEPT !.pc = "Returned",
               !.result = parseResponse(raw),
               !.events = Append(@, Event(st, "call", 0, "response", raw, NoError))]

\* aiClient.ts: the provider call throws err, which the outer catch takes.
providerFails(st, err, jitter) ==
    catchError([st EXCEPT !.events = Append(@, Event(st, "call", 0, "error",
                                                     NoResponse, err))],
               err, jitter)

\* The retry that passes no guidelines on.
retry_guidelinesDropped(st) ==
    [st EXCEPT !.pc = "Calling", !.attempt = @ + 1, !.customGuidelines = null]

\* aiClient.ts: return reviewWithAI(fileName, content, customGuidelines,
\* attempt + 1), once the wait is over.
retry(st) == [st EXCEPT !.pc = "Calling", !.attempt = @ + 1]

AIDispatchUnsupported ==
    /\ ai.pc = "Calling"
    /\ ai.provider \notin DOMAIN PROVIDER_MAPPING
    /\ \E jitter \in Jitters : ai' = dispatchUnsupported(ai, jitter)
    /\ UNCHANGED <<env, pr, run, twin, doc, host, runs, hook, post, web>>

AIProviderResponds ==
    /\ ai.pc = "Calling"
    /\ ai.provider \in DOMAIN PROVIDER_MAPPING
    /\ \E raw \in RawResponses \cup FencedResponses : ai' = providerResponds(ai, raw)
    /\ UNCHANGED <<env, pr, run, twin, doc, host, runs, hook, post, web>>

AIProviderFails ==
    /\ ai.pc = "Calling"
    /\ ai.provider \in DOMAIN PROVIDER_MAPPING
    /\ \E err \in ProviderErrors : \E jitter \in Jitters :
          ai' = providerFails(ai, err, jitter)
    /\ UNCHANGED <<env, pr, run, twin, doc, host, runs, hook, post, web>>

AIRetry ==
    /\ ai.pc = "Waiting"
    /\ ai' = retry(ai)
    /\ UNCHANGED <<env, pr, run, twin, doc, host, runs, hook, post, web>>

\* One call reviewWithAI(fileName, content, customGuidelines) of the
\* orchestrator, under each configured provider.
AIInit ==
    /\ host = NoHost
    /\ runs = NoRuns
    /\ hook = NoHook
    /\ post = NoPost
    /\ web = NoWeb
    /\ env = null
    /\ pr = <<>>
    /\ run = InitRun
    /\ twin = InitRun
    /\ doc = NoDocument
    /\ \E provider \in Providers, fileName \in {"src/a.ts", "docs/BIG.MD"},
          customGuidelines \in {null, "rules"} :
          ai = reviewWithAI(provider, fileName, "content", customGuidelines)

AINext ==
    \/ AIDispatchUnsupported
    \/ AIProviderResponds
    \/ AIProviderFails
    \/ AIRetry

AISpec == AIInit /\ [][AINext]_vars

\* ------------------------------- cleanCodeContent with a line map, by itself

\* The most lines a generated content has.
MaxLines == 3

\* text.replace(pattern, ...) that puts nothing in the place of a match.
preserveLines_matchRemoved(text, open, close) == RemoveBlocks(text, open, close)

\* text.replace(pattern, ...) that puts linesCount newlines, one more than
\* the match holds, in the place of a match.
preserveLines_lineCount(text, open, close) ==
    LET sp == BlockSpans(text, 1, open, close)
        starts == {iv[1] : iv \in sp}
        marked == [i \in 1..Len(text) |-> IF i \in starts THEN "\n" ELSE text[i]]
    IN IF sp = {} THEN text
       ELSE Drop(marked, {i \in 1..Len(text) :
                            /\ text[i] # "\n"
                            /\ i \notin starts
                            /\ \E iv \in sp : iv[1] <= i /\ i <= iv[2]})

\* codeCleaner.ts (line map): preserveLines. Each match of
\* /open[\s\S]*?close/g is replaced by as many newlines as it holds: its
\* newlines stay and its other characters go.
preserveLines(text, open, close) ==
    LET sp == BlockSpans(text, 1, open, close)
    IN IF sp = {} THEN text
       ELSE Drop(text, {i \in 1..Len(text) :
                          text[i] # "\n" /\ \E iv \in sp : iv[1] <= i /\ i <= iv[2]})

\* s.split('\n')
split(s) ==
    LET idx == [i \in 1..Len(s) |-> i]
        nl == SelectSeq(idx, LAMBDA i : s[i] = "\n")
    IN [k \in 1..(Len(nl) + 1) |->
          SubSeq(s, IF k = 1 THEN 1 ELSE nl[k - 1] + 1,
                    IF k = Len(nl) + 1 THEN Len(s) ELSE nl[k] - 1)]

\* String.prototype.trimEnd
trimEnd(t) ==
    LET solid == {i \in 1..Len(t) : t[i] \notin WS}
    IN IF solid = {} THEN <<>>
       ELSE SubSeq(t, 1, CHOOSE i \in solid : \A j \in solid : j <= i)

\* lines.join('\n')
RECURSIVE join(_)
join(lines) ==
    IF Len(lines) = 0 THEN <<>>
    ELSE IF Len(lines) = 1 THEN lines[1]
    ELSE LET half == Len(lines) \div 2
         IN join(SubSeq(lines, 1, half)) \o <<"\n">>
                \o join(SubSeq(lines, half + 1, Len(lines)))

\* The loop that numbers the kept lines from 0.
keptLineNumbers_fromZero(lines) ==
    SelectSeq([i \in 1..Len(lines) |-> i - 1], LAMBDA n : Trim(trimEnd(lines[n + 1])) # <<>>)

\* codeCleaner.ts (line map), the loop: the numbers i + 1 of the lines whose
\* text.trim() is not empty.
keptLineNumbers(lines) ==
    SelectSeq([i \in 1..Len(lines) |-> i], LAMBDA n : Trim(trimEnd(lines[n])) # <<>>)

\* codeCleaner.ts (line map): cleanCodeContent
cleanCodeContentWithMap(content, path) ==
    LET lowerPath == toLowerCase(path)
        c1 == preserveLines(content, BlockOpen, BlockClose)
        intermediate ==
            IF endsWith(lowerPath, DotPy)
            THEN preserveLines(preserveLines(c1, TripleDouble, TripleDouble),
                               TripleSingle, TripleSingle)
            ELSE c1
        lines == split(intermediate)
        kept == SelectSeq(lines, LAMBDA t : Trim(trimEnd(t)) # <<>>)
        finalLines == [i \in 1..Len(kept) |-> trimEnd(kept[i])]
    IN [intermediate |-> intermediate,
        cleanedContent |-> join(finalLines),
        lineMap |-> keptLineNumbers(lines)]

\* The letter that marks the code of line k of a generated content.
Letters == <<"a", "b", "c", "d", "e", "f">>

\* The shapes a line of a generated content can have; @ stands for the
\* letter of the line.
LineShapes ==
    { <<"@">>, <<>>, <<" ">>, <<"@", " ">>,
      <<"/", "*", "@">>, <<"@", "*", "/">>, <<"@", "/", "*">>, <<"*", "/", "@">>,
      <<"@", "/", "*", "@", "*", "/", "@">>,
      <<"\"", "\"", "\"", "@">> }

\* The line of shape `shape` at place k.
LineOf(shape, k) == [i \in 1..Len(shape) |-> IF shape[i] = "@" THEN Letters[k] ELSE shape[i]]

\* The contents of up to MaxLines lines, with and without a last newline.
GeneratedContents ==
    UNION { { join([k \in 1..n |-> LineOf(shapes[k], k)]) \o tail :
                shapes \in [1..n -> LineShapes], tail \in {<<>>, <<"\n">>} } :
            n \in 0..MaxLines }

\* The example of the specification: a comment over the lines 2 to 5.
ExampleContent ==
    <<"a", "\n", "/", "*", "\n", "b", "\n", "c", "\n", "*", "/", "\n", "d">>

\* The paths of the documents: one that is no Python file and one that is.
DocPaths == { <<"a", ".", "t", "s">>, <<"a", ".", "P", "Y">> }

\* A document before and after cleanCodeContent.
Document(pc, content, path, cleaned) ==
    [pc |-> pc, content |-> content, path |-> path,
     intermediate |-> cleaned.intermediate,
     cleanedContent |-> cleaned.cleanedContent, lineMap |-> cleaned.lineMap]

NotCleaned == [intermediate |-> <<>>, cleanedContent |-> <<>>, lineMap |-> <<>>]

CleanCode ==
    /\ doc.pc = "Input"
    /\ doc' = Document("Cleaned", doc.content, doc.path,
                       cleanCodeContentWithMap(doc.content, doc.path))
    /\ UNCHANGED <<env, pr, run, twin, ai, host, runs, hook, post, web>>

CleanInit ==
    /\ host = NoHost
    /\ runs = NoRuns
    /\ hook = NoHook
    /\ post = NoPost
    /\ web = NoWeb
    /\ env = null
    /\ pr = <<>>
    /\ run = InitRun
    /\ twin = InitRun
    /\ ai = NoInvocation
    /\ \E content \in GeneratedContents \cup {ExampleContent}, path \in DocPaths :
          doc = Document("Input", content, path, NotCleaned)

CleanNext == CleanCode

CleanSpec == CleanInit /\ [][CleanNext]_vars

\* ------------------- two deliveries for one version of one pull request

\* The webhook deliveries, each of which starts a run of executeReview.
Deliveries == {1, 2}

\* AzDoAdapter.ts:65: the vote of a reviewer who has not voted.
NO_VOTE == 0

\* AzDoAdapter.ts:70: the vote lockPR sets, Waiting for author.
LOCK_VOTE == -5

\* AzDoAdapter.ts:123-127
voteMap == [approved |-> 10, commented |-> 5, changes_requested |-> -5]

\* The state of the pull request on the host. assigned: the bot is among the
\* reviewers (Azure DevOps) or the requested reviewers (GitHub). vote: the
\* bot's vote (Azure DevOps). reviews: the commits a review of the bot exists
\* for (GitHub). markers: the reviewing... comments of GitHubAdapter.lockPR.
\* comments: the comments posted, each with the delivery that posted it.
Host(adapter, assigned, vote, reviews) ==
    [adapter |-> adapter, assigned |-> assigned, vote |-> vote, reviews |-> reviews,
     markers |-> 0, comments |-> <<>>]

\* The states the pull request can be in when the deliveries arrive.
Hosts ==
    {Host("azdo", a, v, {}) : a \in BOOLEAN, v \in {NO_VOTE, voteMap.approved}}
    \cup {Host("github", a, NO_VOTE, r) : a \in BOOLEAN, r \in {{}, {"old"}, {"head"}}}

\* What an adapter operation that writes gives back: whether it threw, and
\* the host after it.
Written(threw, h) == [threw |-> threw, host |-> h]

\* AzDoAdapter.shouldProcessPR
azdoShouldProcessPR(h) == h.assigned /\ h.vote = NO_VOTE

\* GitHubAdapter.shouldProcessPR: the bot is a requested reviewer and no
\* review of the bot exists for the head commit.
githubShouldProcessPR(h) == h.assigned /\ "head" \notin h.reviews

\* platform.shouldProcessPR()
platformShouldProcessPR(h) ==
    IF h.adapter = "azdo" THEN azdoShouldProcessPR(h) ELSE githubShouldProcessPR(h)

\* AzDoAdapter.ts:63: this.reviewerId once the reviewer was found.
reviewerIdAfter(h, reviewerId) ==
    IF h.adapter = "azdo" /\ h.assigned THEN "anna" ELSE reviewerId

\* AzDoAdapter.lockPR: a plain write of the vote -5.
azdoLockPR(h, reviewerId, ok) ==
    IF reviewerId = null \/ ~ok THEN Written(TRUE, h)
    ELSE Written(FALSE, [h EXCEPT !.vote = LOCK_VOTE])

\* GitHubAdapter.lockPR: an issue comment that says the review has started.
githubLockPR(h, ok) ==
    IF ~ok THEN Written(TRUE, h)
    ELSE Written(FALSE, [h EXCEPT !.markers = @ + 1])

\* platform.lockPR()
platformLockPR(h, reviewerId, ok) ==
    IF h.adapter = "azdo" THEN azdoLockPR(h, reviewerId, ok) ELSE githubLockPR(h, ok)

\* AzDoAdapter.postComment and GitHubAdapter.postComment: one more comment.
platformPostComment(h, d, c, ok) ==
    IF ~ok THEN Written(TRUE, h)
    ELSE Written(FALSE, [h EXCEPT !.comments =
                           Append(@, [by |-> d, path |-> c.filePath, text |-> c.comment])])

\* GitHubAdapter.setFinalStatus that posts its text as an issue comment.
githubSetFinalStatus_asComment(h, status, ok) ==
    IF ~ok THEN Written(TRUE, h)
    ELSE Written(FALSE, [h EXCEPT !.markers = @ + 1])

\* AzDoAdapter.setFinalStatus
azdoSetFinalStatus(h, reviewerId, status, ok) ==
    IF reviewerId = null THEN Written(FALSE, h)
    ELSE IF ~ok THEN Written(TRUE, h)
    ELSE Written(FALSE, [h EXCEPT !.vote = voteMap[status]])

\* GitHubAdapter.setFinalStatus: createReview without commit_id, which the
\* host files under the head commit of the pull request.
githubSetFinalStatus(h, status, ok) ==
    IF ~ok THEN Written(TRUE, h)
    ELSE Written(FALSE, [h EXCEPT !.reviews = @ \cup {"head"}])

\* platform.setFinalStatus(status)
platformSetFinalStatus(h, reviewerId, status, ok) ==
    IF h.adapter = "azdo" THEN azdoSetFinalStatus(h, reviewerId, status, ok)
    ELSE githubSetFinalStatus(h, status, ok)

\* A delivery: its run of executeReview, its adapter's reviewerId, and how
\* many other deliveries had completed lockPR and setFinalStatus when its
\* shouldProcessPR answered.
Delivery(st, reviewerId, locksBefore, finalsBefore) ==
    [st |-> st, reviewerId |-> reviewerId,
     locksBefore |-> locksBefore, finalsBefore |-> finalsBefore]

\* The run came back from setFinalStatus.
Finalized(st) == st.status # "" /\ st.outcome = "returned"

\* The deliveries other than d whose lockPR has completed without an error.
LocksDone(rs, d) == Cardinality({e \in Deliveries \ {d} : rs[e].st.locked})

\* The deliveries other than d whose setFinalStatus has completed.
FinalsDone(rs, d) == Cardinality({e \in Deliveries \ {d} : Finalized(rs[e].st)})

\* A step of a delivery: the host and the delivery after it.
Stepped(h, r) == [host |-> h, r |-> r]

\* ReviewService.ts:37-41 on an adapter
deliveryShouldProcessPR(h, rs, d) ==
    Stepped(h, [rs[d] EXCEPT
                  !.st = shouldProcessPR(@, IF platformShouldProcessPR(h)
                                            THEN "true" ELSE "false"),
                  !.reviewerId = reviewerIdAfter(h, @),
                  !.locksBefore = LocksDone(rs, d),
                  !.finalsBefore = FinalsDone(rs, d)])

\* A lock that excludes: the run that finds the pull request locked stops.
deliveryLockPR_exclusive(h, r, ok) ==
    IF h.vote = LOCK_VOTE \/ h.markers > 0
    THEN Stepped(h, [r EXCEPT !.st = End(@, "returned", "Locking")])
    ELSE LET w == platformLockPR(h, r.reviewerId, ok)
         IN Stepped(w.host, [r EXCEPT !.st = lockPR(@, ~w.threw)])

\* ReviewService.ts:43-48 on an adapter: the write is made whatever the host
\* holds, and the run goes on whether or not it threw.
deliveryLockPR(h, r, ok) ==
    LET w == platformLockPR(h, r.reviewerId, ok)
    IN Stepped(w.host, [r EXCEPT !.st = lockPR(@, ~w.threw)])

\* ReviewService.ts:136-138 on an adapter
deliveryPostComment(h, r, d, ok) ==
    LET w == platformPostComment(h, d, r.st.topComments[r.st.nextPost], ok)
    IN Stepped(w.host, [r EXCEPT !.st = postComment(@, ~w.threw)])

\* ReviewService.ts:140-141 on an adapter
deliverySetFinalStatus(h, r, ok) ==
    LET w == platformSetFinalStatus(h, r.reviewerId,
                                    finalStatus(r.st.hasRedFlags, r.st.hasIssues), ok)
    IN Stepped(w.host, [r EXCEPT !.st = setFinalStatus(@, ~w.threw)])

\* The changed files of the pull request version the deliveries are for.
HostFileLists ==
    { <<>>,
      <<[path |-> "src/a.ts", commitId |-> "head"]>>,
      <<[path |-> "lib/big.ts", commitId |-> "head"]>> }

\* What the provider answers in the runs of the deliveries.
DeliveryResponses ==
    { Raw(FALSE, <<ReviewsObject(<<>>)>>),
      Raw(FALSE, <<ReviewsObject(<<Finding(1, "major", "f1")>>)>>) }

\* The delivery d takes the step that leaves the host alone.
Advance(d, st) ==
    /\ runs' = [runs EXCEPT ![d].st = st]
    /\ UNCHANGED <<env, pr, run, twin, ai, doc, host, hook, post, web>>

\* The delivery d takes the step that writes on the host.
Write(d, stepped) ==
    /\ host' = stepped.host
    /\ runs' = [runs EXCEPT ![d] = stepped.r]
    /\ UNCHANGED <<env, pr, run, twin, ai, doc, hook, post, web>>

DeliveryValidateWebhook ==
    \E d \in Deliveries :
        /\ runs[d].st.pc = "Validating"
        /\ \E res \in {"true", "false"} : Advance(d, validateWebhook(runs[d].st, res))

DeliveryShouldProcessPR ==
    \E d \in Deliveries :
        /\ runs[d].st.pc = "CheckingEligibility"
        /\ Write(d, deliveryShouldProcessPR(host, runs, d))

DeliveryLockPR ==
    \E d \in Deliveries :
        /\ runs[d].st.pc = "Locking"
        /\ \E ok \in BOOLEAN : Write(d, deliveryLockPR(host, runs[d], ok))

DeliveryGetChangedFiles ==
    \E d \in Deliveries :
        /\ runs[d].st.pc = "FetchingFiles"
        /\ Advance(d, getChangedFiles(runs[d].st, "ok", pr, env))

DeliveryGetFileContent ==
    \E d \in Deliveries :
        /\ runs[d].st.pc = "PerFileLoop"
        /\ Advance(d, getFileContent(runs[d].st, "ok"))

DeliveryCallProvider ==
    \E d \in Deliveries :
        /\ runs[d].st.pc = "AIReview"
        /\ \E raw \in DeliveryResponses : Advance(d, callProvider(runs[d].st, "ok", raw))

DeliveryInterFileDelay ==
    \E d \in Deliveries :
        /\ runs[d].st.pc = "InterFileDelay"
        /\ Advance(d, interFileDelay(runs[d].st))

DeliveryAggregate ==
    \E d \in Deliveries :
        /\ runs[d].st.pc = "Aggregating"
        /\ Advance(d, aggregate(runs[d].st))

DeliveryPostComment ==
    \E d \in Deliveries :
        /\ runs[d].st.pc = "Posting"
        /\ \E ok \in BOOLEAN : Write(d, deliveryPostComment(host, runs[d], d, ok))

DeliverySetFinalStatus ==
    \E d \in Deliveries :
        /\ runs[d].st.pc = "Finalizing"
        /\ \E ok \in BOOLEAN : Write(d, deliverySetFinalStatus(host, runs[d], ok))

HostInit ==
    /\ env = null
    /\ pr \in HostFileLists
    /\ run = InitRun
    /\ twin = InitRun
    /\ ai = NoInvocation
    /\ doc = NoDocument
    /\ hook = NoHook
    /\ post = NoPost
    /\ web = NoWeb
    /\ host \in Hosts
    /\ runs = [d \in Deliveries |-> Delivery(InitRun, null, 0, 0)]

HostNext ==
    \/ DeliveryValidateWebhook
    \/ DeliveryShouldProcessPR
    \/ DeliveryLockPR
    \/ DeliveryGetChangedFiles
    \/ DeliveryGetFileContent
    \/ DeliveryCallProvider
    \/ DeliveryInterFileDelay
    \/ DeliveryAggregate
    \/ DeliveryPostComment
    \/ DeliverySetFinalStatus

HostSpec == HostInit /\ [][HostNext]_vars

\* ------------------------------ PrReviewHook: the review of one file

\* The contents of the file the handler fetches: the example of the
\* specification, three short ones, the empty one, one that is a comment
\* only, and one of more than RED_FLAG_LINES lines.
HookContents ==
    { ExampleContent,
      <<>>,
      <<"/", "*", "a", "*", "/">>,
      <<"a">>,
      <<"a", "\n", "\n", "b">>,
      <<"\n", "a", "\n", "/", "*", "b", "\n", "*", "/", "c", "\n">>,
      CodeLines(RED_FLAG_LINES + 1) }

\* The file and what the handler holds for it (PrReviewHook.ts:115-141).
Hook(pc, content, path) ==
    [pc |-> pc, content |-> content, path |-> path, cleanedContent |-> <<>>,
     lineMap |-> <<>>, hasRedFlags |-> FALSE, hasIssues |-> FALSE,
     aiReviews |-> <<>>, next |-> 0, posted |-> <<>>]

\* One finding of the AI: review.line and review.comment.
LineReview(line, comment) == [line |-> line, comment |-> comment]

\* The lines a finding can carry for a lineMap of n entries: none, 0, every
\* line of the cleaned content, and the one after the last.
ReviewLines(n) == {undefined} \cup 0..(n + 1)

\* What reviewWithAI can return for a cleaned content of n kept lines: up to
\* two findings.
LineReviews(n) ==
    {<<>>}
    \cup {<<LineReview(l, "f1")>> : l \in ReviewLines(n)}
    \cup {<<LineReview(l, "f1"), LineReview(m, "f2")>> : l, m \in ReviewLines(n)}

\* One postReview call: its comment, its path and its line.
Posted(comment, path, line) == [comment |-> comment, path |-> path, line |-> line]

\* PrReviewHook.ts:139: lineMap[review.line - 1] || review.line
originalLine(lineMap, line) ==
    IF line \in 1..Len(lineMap) THEN lineMap[line] ELSE line

\* PrReviewHook.ts:119-128: the content is cleaned; a cleaned content of
\* more than 1000 lines gets the red flag as a comment on the file.
hookClean(h, ok) ==
    LET cleaned == cleanCodeContentWithMap(h.content, h.path)
        s1 == [h EXCEPT !.cleanedContent = cleaned.cleanedContent,
                        !.lineMap = cleaned.lineMap]
    IN IF SplitLength(cleaned.cleanedContent) > RED_FLAG_LINES
       THEN [s1 EXCEPT !.hasRedFlags = TRUE,
                       !.pc = "Done",
                       !.posted = IF ok
                                  THEN Append(@, Posted("Architectural Red Flag",
                                                        h.path, undefined))
                                  ELSE @]
       ELSE [s1 EXCEPT !.pc = "Reviewing"]

\* PrReviewHook.ts:130-134, 142-148: the AI is given the cleaned content; an
\* error of the call is caught and ends the file.
hookReview(h, threw, aiReviews) ==
    IF threw THEN [h EXCEPT !.pc = "Done"]
    ELSE IF Len(aiReviews) > 0
         THEN [h EXCEPT !.aiReviews = aiReviews, !.hasIssues = TRUE,
                        !.next = 1, !.pc = "Posting"]
         ELSE [h EXCEPT !.pc = "Done"]

\* PrReviewHook.ts:137-141: each finding is posted as a thread at the line
\* mapped back; an error of postReview is caught and ends the file.
hookPostReview(h, ok) ==
    LET review == h.aiReviews[h.next]
    IN IF ~ok THEN [h EXCEPT !.pc = "Done"]
       ELSE [h EXCEPT !.posted = Append(@, Posted(review.comment, h.path,
                                                  originalLine(h.lineMap, review.line))),
                      !.next = @ + 1,
                      !.pc = IF h.next + 1 > Len(h.aiReviews) THEN "Done" ELSE "Posting"]

HookClean ==
    /\ hook.pc = "Fetched"
    /\ \E ok \in BOOLEAN : hook' = hookClean(hook, ok)
    /\ UNCHANGED <<env, pr, run, twin, ai, doc, host, runs, post, web>>

HookReview ==
    /\ hook.pc = "Reviewing"
    /\ \/ hook' = hookReview(hook, TRUE, <<>>)
       \/ \E aiReviews \in LineReviews(Len(hook.lineMap)) :
             hook' = hookReview(hook, FALSE, aiReviews)
    /\ UNCHANGED <<env, pr, run, twin, ai, doc, host, runs, post, web>>

HookPostReview ==
    /\ hook.pc = "Posting"
    /\ \E ok \in BOOLEAN : hook' = hookPostReview(hook, ok)
    /\ UNCHANGED <<env, pr, run, twin, ai, doc, host, runs, post, web>>

HookInit ==
    /\ env = null
    /\ pr = <<>>
    /\ run = InitRun
    /\ twin = InitRun
    /\ ai = NoInvocation
    /\ doc = NoDocument
    /\ host = NoHost
    /\ runs = NoRuns
    /\ post = NoPost
    /\ web = NoWeb
    /\ \E content \in HookContents :
          hook = Hook("Fetched", content, <<"a", ".", "t", "s">>)

HookNext ==
    \/ HookClean
    \/ HookReview
    \/ HookPostReview

HookSpec == HookInit /\ [][HookNext]_vars

\* ------------------------------------ the posting budget, taken by itself

\* The run steps of the loop, of the aggregation and of the posting, on
\* files that are reviewed or red-flagged, with provider responses that
\* fill the posting budget from one file.

\* A response with as many findings as the budget, all of one severity.
BudgetReviews(severity) ==
    [i \in 1..MAX_REVIEW_COMMENTS |-> Finding(i, severity, "b")]

\* The responses the provider gives in these runs.
BudgetResponses ==
    { Raw(FALSE, <<ReviewsObject(<<>>)>>),
      Raw(FALSE, <<ReviewsObject(Reviews4)>>),
      Raw(FALSE, <<ReviewsObject(BudgetReviews("critical"))>>),
      Raw(FALSE, <<ReviewsObject(BudgetReviews("minor"))>>) }

\* The changed files of these runs: a small file, a file over the red-flag
\* threshold, or both in either order.
BudgetFileLists ==
    {f \in FileLists :
        /\ Len(f) > 0
        /\ \A k \in 1..Len(f) : f[k].path \in {"src/a.ts", "lib/big.ts"}}

\* ReviewService.ts:27-82: the run at its first file, no guidelines
\* document being configured.
AtFirstFile(files) ==
    getChangedFiles(lockPR(shouldProcessPR(validateWebhook(InitRun, "true"), "true"), TRUE),
                    "ok", files, null)

BudgetCallProvider ==
    /\ run.pc = "AIReview"
    /\ \E raw \in BudgetResponses :
          /\ run' = callProvider(run, "ok", raw)
          /\ twin' = callProvider(twin, "ok", raw)
    /\ UNCHANGED <<env, pr, ai, doc, host, runs, hook, post, web>>

BudgetInit ==
    /\ host = NoHost
    /\ runs = NoRuns
    /\ hook = NoHook
    /\ post = NoPost
    /\ web = NoWeb
    /\ env = null
    /\ pr \in BudgetFileLists
    /\ run = AtFirstFile(pr)
    /\ twin = AtFirstFile(pr)
    /\ ai = NoInvocation
    /\ doc = NoDocument

BudgetNext ==
    \/ GetFileContent
    \/ BudgetCallProvider
    \/ InterFileDelay
    \/ Aggregate
    \/ PostComment
    \/ SetFinalStatus

BudgetSpec == BudgetInit /\ [][BudgetNext]_vars

\* ------------------------------- one call that posts a comment, by itself

\* GitHubAdapter.postComment and azdoClient.postReview, each taken alone:
\* the requests the call sends to the host and the comments the host
\* creates for them.

\* The values of startLine and endLine: absent, 0, or a line.
PostLines == {undefined} \cup 0..MaxLines

\* The truth value JavaScript gives a number | undefined.
TruthyNumber(n) == n # undefined /\ n # 0

\* A request to the host: the operation, the file path, the first line of a
\* range (undefined when the request carries none), the line, and what the
\* host answered ("ok", or the status of the error thrown).
Request(api, path, start, line, answer) ==
    [api |-> api, path |-> path, start |-> start, line |-> line, answer |-> answer]

\* One call: fn is "GitHubAdapter.postComment" or "postReview".
PostCall(fn, path, startLine, endLine) ==
    [fn |-> fn, pc |-> "Called", path |-> path, startLine |-> startLine,
     endLine |-> endLine, requests |-> <<>>, created |-> <<>>]

\* The request was sent and answered; the host has created the comment
\* when it answered ok.
Sent(p, request) ==
    [p EXCEPT !.requests = Append(@, request),
              !.created = IF request.answer = "ok" THEN Append(@, request.api) ELSE @]

\* What the host can answer to pulls.createReviewComment: it creates the
\* comment, rejects the line (422), or fails otherwise.
ReviewCommentAnswers == {"ok", "422", "500"}

\* GitHubAdapter.ts:116
lineAnchored(p) == TruthyNumber(p.endLine) /\ p.endLine > 0

\* GitHubAdapter.ts:131-134 and 140: the range starts before its end.
isRange(startLine, endLine) == TruthyNumber(startLine) /\ startLine < endLine

\* The line-anchored attempt that falls back to the file-level comment on
\* every error.
githubCreateReviewComment_alwaysFallback(p, answer) ==
    LET request == Request("pulls.createReviewComment", p.path,
                           IF isRange(p.startLine, p.endLine) THEN p.startLine
                           ELSE undefined,
                           p.endLine, answer)
    IN [Sent(p, request) EXCEPT !.pc = IF answer = "ok" THEN "Returned" ELSE "Caught422"]

\* GitHubAdapter.ts:117-153: the line-anchored attempt and its catch.
githubCreateReviewComment(p, answer) ==
    LET request == Request("pulls.createReviewComment", p.path,
                           IF isRange(p.startLine, p.endLine) THEN p.startLine
                           ELSE undefined,
                           p.endLine, answer)
    IN [Sent(p, request) EXCEPT !.pc = CASE answer = "ok" -> "Returned"
                                          [] answer = "422" -> "Caught422"
                                          [] OTHER -> "Threw"]

\* GitHubAdapter.ts:144-149 and 156-161: the file-level comment.
githubCreateIssueComment(p, ok) ==
    LET request == Request("issues.createComment", p.path, undefined, undefined,
                           IF ok THEN "ok" ELSE "500")
    IN [Sent(p, request) EXCEPT !.pc = IF ok THEN "Returned" ELSE "Threw"]

\* actualStartLine that takes every startLine given.
actualStartLine_unchecked(startLine, endLine) ==
    IF TruthyNumber(startLine) THEN startLine ELSE endLine

\* azdoClient.ts:60
actualStartLine(startLine, endLine) ==
    IF TruthyNumber(startLine) /\ startLine < endLine THEN startLine ELSE endLine

\* azdoClient.ts:47-77: the thread, with rightFileStart and rightFileEnd
\* when filePath and endLine are given, with the file alone when only
\* filePath is given.
postReview(p, ok) ==
    LET answer == IF ok THEN "ok" ELSE "500"
        request ==
            IF p.path # "" /\ TruthyNumber(p.endLine)
            THEN Request("threads", p.path, actualStartLine(p.startLine, p.endLine),
                         p.endLine, answer)
            ELSE Request("threads", p.path, undefined, undefined, answer)
    IN [Sent(p, request) EXCEPT !.pc = IF ok THEN "Returned" ELSE "Threw"]

GithubCreateReviewComment ==
    /\ post.fn = "GitHubAdapter.postComment"
    /\ post.pc = "Called"
    /\ lineAnchored(post)
    /\ \E answer \in ReviewCommentAnswers : post' = githubCreateReviewComment(post, answer)
    /\ UNCHANGED <<env, pr, run, twin, ai, doc, host, runs, hook, web>>

GithubCreateIssueComment ==
    /\ post.fn = "GitHubAdapter.postComment"
    /\ \/ post.pc = "Called" /\ ~lineAnchored(post)
       \/ post.pc = "Caught422"
    /\ \E ok \in BOOLEAN : post' = githubCreateIssueComment(post, ok)
    /\ UNCHANGED <<env, pr, run, twin, ai, doc, host, runs, hook, web>>

PostReview ==
    /\ post.fn = "postReview"
    /\ post.pc = "Called"
    /\ \E ok \in BOOLEAN : post' = postReview(post, ok)
    /\ UNCHANGED <<env, pr, run, twin, ai, doc, host, runs, hook, web>>

PostInit ==
    /\ env = null
    /\ pr = <<>>
    /\ run = InitRun
    /\ twin = InitRun
    /\ ai = NoInvocation
    /\ doc = NoDocument
    /\ host = NoHost
    /\ runs = NoRuns
    /\ hook = NoHook
    /\ web = NoWeb
    /\ \E startLine \in PostLines, endLine \in PostLines :
          \/ post = PostCall("GitHubAdapter.postComment", "src/a.ts", startLine, endLine)
          \/ \E filePath \in {"", "src/a.ts"} :
                post = PostCall("postReview", filePath, startLine, endLine)

PostNext ==
    \/ GithubCreateReviewComment
    \/ GithubCreateIssueComment
    \/ PostReview

PostSpec == PostInit /\ [][PostNext]_vars

\* ------------------------------------------- the GitHub webhook handler

\* GitHubReviewHook.ts: one request, the run of executeReview it starts, and
\* the response.

\* What the request carries: a body that is no JSON, JSON without the
\* members the handler and the adapter's constructor read, or a pull request
\* event.
Payloads == {"notJson", "noPullRequest", "pullRequest"}

Web(pc, status, body) == [pc |-> pc, status |-> status, body |-> body]

\* The handler that answers 200 whatever the review did.
respond_alwaysOk(st) == Web("Responded", 200, "Review completed.")

\* GitHubReviewHook.ts:21-27 and ReviewService.ts:20-24: reviewPullRequest
\* has no catch, so what executeReview throws reaches the handler's catch.
respond(st) ==
    IF st.outcome = "threw" THEN Web("Responded", 500, "error.message")
    ELSE Web("Responded", 200, "Review completed.")

\* GitHubReviewHook.ts:14-19: req.json(), payload.pull_request.number and
\* the constructor of the adapter throw on a request that is no pull
\* request event.
handlePayload(payload) ==
    IF payload = "pullRequest" THEN Web("Reviewing", 0, "")
    ELSE Web("Responded", 500, "error.message")

WebHandlePayload ==
    /\ web.pc = "Received"
    /\ \E payload \in Payloads : web' = handlePayload(payload)
    /\ UNCHANGED <<env, pr, run, twin, ai, doc, host, runs, hook, post>>

WebRespond ==
    /\ web.pc = "Reviewing"
    /\ run.pc = "Done"
    /\ web' = respond(run)
    /\ UNCHANGED <<env, pr, run, twin, ai, doc, host, runs, hook, post>>

WebInit ==
    /\ env = null
    /\ pr \in HostFileLists
    /\ run = InitRun
    /\ twin = InitRun
    /\ ai = NoInvocation
    /\ doc = NoDocument
    /\ host = NoHost
    /\ runs = NoRuns
    /\ hook = NoHook
    /\ post = NoPost
    /\ web = Web("Received", 0, "")

\* The steps of executeReview are taken while reviewPullRequest is awaited.
WebNext ==
    \/ WebHandlePayload
    \/ web.pc = "Reviewing" /\ ValidateWebhook
    \/ web.pc = "Reviewing" /\ ShouldProcessPR
    \/ web.pc = "Reviewing" /\ LockPR
    \/ web.pc = "Reviewing" /\ GetChangedFiles
    \/ web.pc = "Reviewing" /\ GetFileContent
    \/ web.pc = "Reviewing" /\ CallProvider
    \/ web.pc = "Reviewing" /\ RetryAfterWait
    \/ web.pc = "Reviewing" /\ InterFileDelay
    \/ web.pc = "Reviewing" /\ Aggregate
    \/ web.pc = "Reviewing" /\ PostComment
    \/ web.pc = "Reviewing" /\ SetFinalStatus
    \/ WebRespond

WebSpec == WebInit /\ [][WebNext]_vars

\* ------------------------------------------------------------ properties

\* The positions of the calls of op in the run's record of calls.
CallsOf(st, op) == {i \in 1..Len(st.calls) : st.calls[i].op = op}

\* Some call of op in the run answered ret.
Answered(st, op, ret) == \E i \in CallsOf(st, op) : st.calls[i].ret = ret

\* A file of the run was red-flagged.
RedFlagFound(st) == \E k \in 1..Len(st.results) : st.results[k].kind = "redFlag"

\* The paths of the files whose AI review returned.
ReviewedPaths(st) ==
    {st.results[k].path :
        k \in {j \in 1..Len(st.results) : st.results[j].kind \in {"reviewed", "unparsed"}}}

\* A comment that came from the AI was passed to postComment.
AICommentPosted(st) ==
    \E i \in CallsOf(st, "postComment") : st.calls[i].path \in ReviewedPaths(st)

\* C1: the status passed to setFinalStatus is changes_requested when a file
\* was red-flagged, else commented when a comment of the AI was posted in the
\* run, else approved.
C1_FinalStatus ==
    \A i \in CallsOf(run, "setFinalStatus") :
        run.calls[i].text =
            IF RedFlagFound(run) THEN "changes_requested"
            ELSE IF AICommentPosted(run) THEN "commented"
            ELSE "approved"

\* A run that set `commented` after it posted the full budget of comments.
C1_Witness ==
    /\ run.outcome = "returned"
    /\ run.status = "commented"
    /\ Cardinality(CallsOf(run, "postComment")) = MAX_REVIEW_COMMENTS

\* The operations an early exit must not have called.
EffectOps == {"lockPR", "getChangedFiles", "getFileContent", "reviewWithAI",
              "postComment", "setFinalStatus"}

\* validateWebhook or shouldProcessPR answered false.
Declined(st) ==
    Answered(st, "validateWebhook", "false") \/ Answered(st, "shouldProcessPR", "false")

\* C2: once validateWebhook or shouldProcessPR has answered false the run has
\* returned, and it has called none of lockPR, getChangedFiles,
\* getFileContent, postComment, setFinalStatus, nor the AI.
C2_EarlyExitNoEffects ==
    Declined(run) =>
        /\ run.outcome = "returned"
        /\ ~run.locked
        /\ \A i \in 1..Len(run.calls) : run.calls[i].op \notin EffectOps

\* The webhook was valid and the pull request was declined.
C2_Witness ==
    /\ Answered(run, "validateWebhook", "true")
    /\ Answered(run, "shouldProcessPR", "false")
    /\ run.pc = "Done"

\* The stage of the specification each position of the run belongs to.
StageRank(pc) ==
    CASE pc = "Validating" -> 1
      [] pc = "CheckingEligibility" -> 2
      [] pc = "Locking" -> 3
      [] pc \in {"FetchingFiles", "FetchingGuidelines"} -> 4
      [] pc \in {"PerFileLoop", "AIReview", "Backoff", "InterFileDelay"} -> 5
      [] pc = "Aggregating" -> 6
      [] pc = "Posting" -> 7
      [] pc = "Finalizing" -> 8
      [] pc = "Done" -> 9

\* The place of an operation in the order of the stages.
OpRank(op) ==
    CASE op = "validateWebhook" -> 1
      [] op = "shouldProcessPR" -> 2
      [] op = "lockPR" -> 3
      [] op = "getChangedFiles" -> 4
      [] op \in {"getFileContent", "reviewWithAI"} -> 5
      [] op = "postComment" -> 7
      [] op = "setFinalStatus" -> 8

OnceOps == {"validateWebhook", "shouldProcessPR", "lockPR", "getChangedFiles",
            "setFinalStatus"}

\* The calls made so far respect the order of the stages.
CallsInStageOrder(st) ==
    /\ \A op \in OnceOps : Cardinality(CallsOf(st, op)) <= 1
    /\ \A i, j \in 1..Len(st.calls) :
          i < j => OpRank(st.calls[i].op) <= OpRank(st.calls[j].op)
    /\ CallsOf(st, "postComment") # {} => Len(st.results) = Len(st.files)
    /\ \A i \in 1..Len(st.calls) : OpRank(st.calls[i].op) <= StageRank(st.pc)

\* C3: the stages follow one another in the order Validating,
\* CheckingEligibility, Locking, FetchingFiles, PerFileLoop, Aggregating,
\* Posting, Finalizing and none is entered again; validateWebhook,
\* shouldProcessPR, lockPR, getChangedFiles and setFinalStatus are called at
\* most once each and in that order; no comment is posted before every
\* changed file went through the loop; setFinalStatus comes after the last
\* postComment.
C3_StageOrder ==
    /\ [](CallsInStageOrder(run))
    /\ [][StageRank(run'.pc) >= StageRank(run.pc)]_vars

\* A run that went through every stage and returned.
C3_Witness ==
    /\ run.outcome = "returned"
    /\ run.endedAt = "Finalizing"
    /\ Answered(run, "lockPR", "ok")
    /\ Cardinality(CallsOf(run, "postComment")) >= 2
    /\ Cardinality(CallsOf(run, "getFileContent")) >= 2

\* The kinds of outcome of a file whose processing threw.
FailKinds == {"fetchError", "aiError", "rateLimitError"}

\* The paths of the files whose content fetch or AI review threw.
FailedPaths(st) ==
    {st.results[k].path : k \in {j \in 1..Len(st.results) : st.results[j].kind \in FailKinds}}

\* No error has propagated out of the per-file loop.
NoAbortInLoop(st) ==
    st.outcome = "threw" =>
        st.endedAt \notin {"PerFileLoop", "AIReview", "Backoff", "InterFileDelay"}

\* The files that failed have no candidate comment and no posted comment.
FailedContributeNothing(st) ==
    /\ \A k \in 1..Len(st.collected) : st.collected[k].filePath \notin FailedPaths(st)
    /\ \A k \in 1..Len(st.allComments) : st.allComments[k].filePath \notin FailedPaths(st)
    /\ \A i \in CallsOf(st, "postComment") : st.calls[i].path \notin FailedPaths(st)

\* The loop is over and every changed file went through it.
LoopCompleted(st) ==
    /\ StageRank(st.pc) >= StageRank("Aggregating")
    /\ st.endedAt \in {"", "Posting", "Finalizing"}
    /\ Len(st.results) = Len(st.files)

WithoutLockAnswer(st) ==
    [st EXCEPT !.locked = TRUE,
               !.calls = [i \in 1..Len(st.calls) |->
                            IF st.calls[i].op = "lockPR"
                            THEN [st.calls[i] EXCEPT !.ret = "ok"]
                            ELSE st.calls[i]]]

\* C5: when lockPR throws the run goes on to getChangedFiles and is, step for
\* step, the run in which lockPR succeeded and the host and the AI gave the
\* same answers: the same files reviewed with the same outcomes, the same
\* postComment calls in the same order and the same setFinalStatus call.
C5_LockFailureIgnored ==
    /\ Answered(run, "lockPR", "throw") =>
          /\ run.endedAt # "Locking"
          /\ run.pc = "FetchingFiles" \/ CallsOf(run, "getChangedFiles") # {}
    /\ Answered(twin, "lockPR", "ok") \/ CallsOf(twin, "lockPR") = {}
    /\ WithoutLockAnswer(run) = WithoutLockAnswer(twin)

\* lockPR threw, and the run reviewed a file, posted a comment and set the
\* final status.
C5_Witness ==
    /\ Answered(run, "lockPR", "throw")
    /\ ~run.locked
    /\ ReviewedPaths(run) # {}
    /\ CallsOf(run, "postComment") # {}
    /\ CallsOf(run, "setFinalStatus") # {}

\* The write operations of the host (PlatformAdapter.ts:13, 16, 17) that the
\* run has performed: the lock that was taken, the comments, the status.
HostWrites(st) ==
    {i \in 1..Len(st.calls) :
        \/ st.calls[i].op = "lockPR" /\ st.calls[i].ret = "ok"
        \/ st.calls[i].op \in {"postComment", "setFinalStatus"}}

\* C6: when validateWebhook, shouldProcessPR or getChangedFiles throws, the
\* error leaves the run and no write on the host (the lock of lockPR, a
\* postComment, setFinalStatus) has been performed in the run.
C6_CleanAbort ==
    \A op \in {"validateWebhook", "shouldProcessPR", "getChangedFiles"} :
        Answered(run, op, "throw") =>
            /\ run.outcome = "threw"
            /\ HostWrites(run) = {}
            /\ ~run.locked

\* The postComment calls of the run, in the order they were made.
PostCalls(st) == SelectSeq([i \in 1..Len(st.calls) |-> i],
                           LAMBDA i : st.calls[i].op = "postComment")

\* The place in the collection order of the comment that call i posted (a
\* comment is known by its file and its text).
CollectedIndex(st, i) ==
    CHOOSE k \in 1..Len(st.collected) :
        /\ st.collected[k].filePath = st.calls[i].path
        /\ st.collected[k].comment = st.calls[i].text

\* The priority of the comment that call i posted.
PostedPriority(st, i) == SeverityPriority(st.collected[CollectedIndex(st, i)].severity)

\* The candidates that no postComment call has posted.
Dropped(st) ==
    {k \in 1..Len(st.collected) :
        \A i \in CallsOf(st, "postComment") : CollectedIndex(st, i) # k}

\* The run came through the posting of its comments: no postComment call
\* threw and none is left to make.
PostingOver(st) ==
    st.pc \in {"Finalizing", "Done"} /\ ~Answered(st, "postComment", "throw")

MinOf(a, b) == IF a < b THEN a ELSE b

C8_MostSevereKept ==
    (PostingOver(run) /\ Len(run.collected) > MAX_REVIEW_COMMENTS) =>
        \A d \in Dropped(run) : \A i \in CallsOf(run, "postComment") :
            ~(SeverityPriority(run.collected[d].severity) < PostedPriority(run, i))

\* More than 15 candidates, docs/BIG.MD iterated before src/a.ts, a
\* candidate dropped, and a critical comment of the second file posted.
C8_Witness ==
    /\ PostingOver(run)
    /\ Len(run.collected) > MAX_REVIEW_COMMENTS
    /\ Dropped(run) # {}
    /\ run.files[1].path = "docs/BIG.MD"
    /\ \E i \in CallsOf(run, "postComment") :
          run.calls[i].path = run.files[2].path /\ PostedPriority(run, i) = 0

\* C9: the postComment calls are made in non-decreasing priority, and two
\* posted comments of equal priority are posted in the order in which they
\* were collected.
C9_PostOrderStable ==
    \A a, b \in 1..Len(PostCalls(run)) :
        a < b =>
            LET i == PostCalls(run)[a]
                j == PostCalls(run)[b]
            IN /\ PostedPriority(run, i) <= PostedPriority(run, j)
               /\ PostedPriority(run, i) = PostedPriority(run, j) =>
                     CollectedIndex(run, i) < CollectedIndex(run, j)

\* The collection order minor, critical, major, critical was posted as
\* critical, critical, major, minor, the two critical comments in their
\* collection order.
C9_Witness ==
    /\ Len(run.collected) = 4
    /\ Len(PostCalls(run)) = 4
    /\ [a \in 1..4 |-> run.collected[a].severity] = <<"minor", "critical", "major", "critical">>
    /\ [a \in 1..4 |-> CollectedIndex(run, PostCalls(run)[a])] = <<2, 4, 3, 1>>

\* The number of lines of s that hold a character other than whitespace: a
\* line is counted at its first such character.
NonBlankLineCount(s) ==
    Cardinality({i \in 1..Len(s) :
        /\ s[i] \notin WS
        /\ \/ i = 1
           \/ /\ i > 1
              /\ s[i - 1] \in WS
              /\ LET a == i - 1 - RunBack(s, i - 1)
                 IN a = 1 \/ \E k \in a..(i - 1) : s[k] = "\n"})

\* The non-blank lines of the cleaned content of every path, computed once.
NonBlankOf ==
    [p \in Paths |-> NonBlankLineCount(cleanCodeContent(FileContent(p), Chars(p)))]

\* The paths whose content the run has fetched.
FetchedPaths(st) ==
    {st.calls[i].path : i \in {j \in CallsOf(st, "getFileContent") : st.calls[j].ret = "ok"}}

\* The candidate comments collected for path.
CollectedFor(st, path) == {k \in 1..Len(st.collected) : st.collected[k].filePath = path}

\* C10: for a file that is not ignored and not Markdown, and whose cleaned
\* content has more than 1000 non-blank lines, the run collects exactly one
\* candidate comment, of severity critical and without start and end line,
\* makes no AI call for the file, and sets no final status other than
\* changes_requested.
C10_RedFlag ==
    \A p \in FetchedPaths(run) \cap Paths :
        (~shouldIgnoreFile(p) /\ p \notin MarkdownPaths /\ NonBlankOf[p] > RED_FLAG_LINES) =>
            /\ Cardinality(CollectedFor(run, p)) = 1
            /\ \A k \in CollectedFor(run, p) :
                  /\ run.collected[k].severity = "critical"
                  /\ run.collected[k].startLine = undefined
                  /\ run.collected[k].endLine = undefined
            /\ \A i \in CallsOf(run, "reviewWithAI") : run.calls[i].path # p
            /\ \A i \in CallsOf(run, "setFinalStatus") :
                  run.calls[i].text = "changes_requested"

\* lib/big.ts, 1001 non-blank lines after cleaning, was red-flagged next to a
\* file that the AI reviewed, and the final status was set.
C10_Witness ==
    /\ "lib/big.ts" \in FetchedPaths(run)
    /\ NonBlankOf["lib/big.ts"] = RED_FLAG_LINES + 1
    /\ ReviewedPaths(run) # {}
    /\ \E i \in CallsOf(run, "postComment") :
          run.calls[i].path = "lib/big.ts" /\ run.calls[i].startLine = undefined
    /\ \E i \in CallsOf(run, "setFinalStatus") : run.calls[i].text = "changes_requested"

\* The paths of the files the run red-flagged.
RedFlaggedPaths(st) ==
    {st.results[k].path : k \in {j \in 1..Len(st.results) : st.results[j].kind = "redFlag"}}

\* The paths the run has called reviewWithAI for.
AIReviewPaths(st) == {st.calls[i].path : i \in CallsOf(st, "reviewWithAI")}

\* C11: a fetched, non-ignored file is red-flagged only if it is not
\* Markdown and its cleaned content has more than 1000 non-blank lines; a
\* file of 1000 or fewer non-blank cleaned lines, and every file whose path
\* ends in .md, is sent to the AI review and gives no red flag.
C11_RedFlagOnlyWhenLarge ==
    \A p \in (FetchedPaths(run) \cap Paths) \ IgnoredPaths :
        (p \in MarkdownPaths \/ NonBlankOf[p] <= RED_FLAG_LINES) =>
            /\ p \notin RedFlaggedPaths(run)
            /\ p \in AIReviewPaths(run)

\* C12: when getChangedFiles returns the empty list the run returns there:
\* it makes no getFileContent call (the fetch of the guidelines document
\* included), no AI call, no postComment call and no setFinalStatus call.
C12_NoFilesEarlyExit ==
    (Answered(run, "getChangedFiles", "ok") /\ pr = <<>>) =>
        /\ run.pc = "Done"
        /\ run.outcome = "returned"
        /\ \A op \in {"getFileContent", "reviewWithAI", "postComment", "setFinalStatus"} :
              CallsOf(run, op) = {}

\* The guidelines document is configured and getChangedFiles has returned
\* the empty list.
C12_Witness ==
    /\ env = GuidelinesPath
    /\ pr = <<>>
    /\ Answered(run, "getChangedFiles", "ok")
    /\ run.endedAt = "FetchingFiles"

\* The loop is over, no file was red-flagged and every AI review that
\* returned gave the empty list.
NothingFound(st) ==
    /\ LoopCompleted(st)
    /\ RedFlaggedPaths(st) = {}
    /\ \A k \in 1..Len(st.results) : st.results[k].path \in ReviewedPaths(st) => st.results[k].n = 0

\* C13: when no file is red-flagged and every AI review returns the empty
\* list, the run posts no comment, sets no status other than approved, and
\* does call setFinalStatus.
C13_NothingFoundApproved ==
    /\ [](NothingFound(run) =>
            /\ CallsOf(run, "postComment") = {}
            /\ \A i \in CallsOf(run, "setFinalStatus") : run.calls[i].text = "approved")
    /\ NothingFound(run) ~> (CallsOf(run, "setFinalStatus") # {})

\* A file was reviewed with no finding and the status approved was set.
C13_Witness ==
    /\ NothingFound(run)
    /\ \E k \in 1..Len(run.results) : run.results[k].kind = "reviewed"
    /\ CallsOf(run, "postComment") = {}
    /\ \E i \in CallsOf(run, "setFinalStatus") : run.calls[i].text = "approved"

\* The paths of the files whose AI response was empty or did not parse.
UnparsedPaths(st) ==
    {st.results[k].path : k \in {j \in 1..Len(st.results) : st.results[j].kind = "unparsed"}}

\* The provider call just made for the current file answered with text that
\* is empty or does not parse.
MalformedAnswer(st) == st.answer = "malformed"

\* C14: a provider call that succeeds with text that is empty or does not
\* parse ends reviewWithAI at once with the empty list: no error reaches the
\* run, no wait and no further provider call follows for the file, the file
\* adds no comment, and the loop goes on to its end.
C14_MalformedResponse ==
    /\ [](MalformedAnswer(run) =>
            /\ run.pc = "InterFileDelay"
            /\ run.outcome = "running"
            /\ Len(run.results) = run.idx
            /\ run.results[run.idx] = Result(run.files[run.idx].path, "unparsed", 0))
    /\ [](\A p \in UnparsedPaths(run) :
            /\ CollectedFor(run, p) = {}
            /\ \A i \in CallsOf(run, "postComment") : run.calls[i].path # p)
    /\ [][MalformedAnswer(run) =>
            /\ run'.pc \in {"PerFileLoop", "Aggregating"}
            /\ run'.idx = run.idx + 1
            /\ CallsOf(run', "reviewWithAI") = CallsOf(run, "reviewWithAI")]_vars
    /\ MalformedAnswer(run) ~> LoopCompleted(run)

\* The first file's response did not parse, the second file was reviewed
\* with findings, and the run set its final status.
C14_Witness ==
    /\ Len(run.results) = 2
    /\ run.results[1].kind = "unparsed"
    /\ run.results[2].kind = "reviewed"
    /\ run.results[2].n > 0
    /\ CallsOf(run, "setFinalStatus") # {}

\* The provider calls of the invocation, in the order they were made.
CallEvents(st) == SelectSeq(st.events, LAMBDA e : e.kind = "call")

\* The waits of the invocation, in the order they were made.
WaitEvents(st) == SelectSeq(st.events, LAMBDA e : e.kind = "wait")

\* The step failed with a rate-limit signal.
RateLimited(e) == e.answer = "error" /\ isRateLimit(e.err)

\* C15: one top-level reviewWithAI invocation makes at most 4 provider calls;
\* a wait follows only a rate-limit failure of an attempt 1, 2 or 3; and when
\* all 4 calls fail with a rate-limit signal the error of the 4th is thrown
\* to the caller with no wait and no call after it.
C15_AtMostFourCalls ==
    /\ Len(CallEvents(ai)) <= MAX_RETRY_ATTEMPT + 1
    /\ \A i \in 1..Len(ai.events) :
          ai.events[i].kind = "wait" =>
              /\ ai.events[i].attempt <= MAX_RETRY_ATTEMPT
              /\ i > 1
              /\ RateLimited(ai.events[i - 1])
              /\ ai.events[i - 1].attempt = ai.events[i].attempt
    /\ ( /\ Len(CallEvents(ai)) = MAX_RETRY_ATTEMPT + 1
         /\ \A k \in 1..Len(CallEvents(ai)) : RateLimited(CallEvents(ai)[k]) ) =>
            /\ ai.pc = "Threw"
            /\ ai.error = CallEvents(ai)[MAX_RETRY_ATTEMPT + 1].err
            /\ ai.events[Len(ai.events)] = CallEvents(ai)[MAX_RETRY_ATTEMPT + 1]
            /\ Len(WaitEvents(ai)) = MAX_RETRY_ATTEMPT

\* Four provider calls were made, each failed with a rate-limit signal, and
\* the error of the fourth was thrown.
C15_Witness ==
    /\ Len(CallEvents(ai)) = 4
    /\ \A k \in 1..4 : RateLimited(CallEvents(ai)[k])
    /\ ai.pc = "Threw"
    /\ ai.attempt = 4

\* The sum of the waits of a sequence of wait events, in ms.
RECURSIVE TotalWait(_)
TotalWait(waits) ==
    IF waits = <<>> THEN 0 ELSE waits[1].ms + TotalWait(Tail(waits))

\* C16: the wait after the rate-limited attempt k (k in 1..3) is k * 2000 ms
\* plus an integer jitter of 0 to 999 ms; the waits of one invocation grow
\* strictly; their total is below 15000 ms always and at least 12000 ms when
\* all three retries are used.
C16_BackoffWaits ==
    LET waits == WaitEvents(ai)
    IN /\ Len(waits) <= 3
       /\ \A k \in 1..Len(waits) :
             /\ waits[k].attempt = k
             /\ waits[k].ms - k * 2000 \in 0..999
       /\ \A j, k \in 1..Len(waits) : j < k => waits[j].ms < waits[k].ms
       /\ TotalWait(waits) < 15000
       /\ Len(waits) = 3 => TotalWait(waits) >= 12000

\* All three retries were used, with the greatest, the least and a middle
\* jitter: 2999 + 4000 + 6500 ms.
C16_Witness ==
    /\ Len(WaitEvents(ai)) = 3
    /\ [k \in 1..3 |-> WaitEvents(ai)[k].ms] = <<2999, 4000, 6500>>
    /\ TotalWait(WaitEvents(ai)) = 13499

\* The last provider call of the invocation returned text and every call
\* before it failed with a rate-limit signal.
SucceededAfterRateLimits(st) ==
    LET calls == CallEvents(st)
    IN /\ Len(calls) >= 1
       /\ calls[Len(calls)].answer = "response"
       /\ \A j \in 1..(Len(calls) - 1) : RateLimited(calls[j])

\* C17: when the first k - 1 provider calls fail with a rate-limit signal and
\* the k-th returns, reviewWithAI returns the reviews parsed from the k-th
\* response, has made exactly k calls (k <= 4), each with the file name, the
\* content and the guidelines it was given, and has waited between every two
\* consecutive calls, for k = 3 at least 2000 + 4000 ms in all.
C17_RetryThenSuccess ==
    SucceededAfterRateLimits(ai) =>
        LET calls == CallEvents(ai)
            k == Len(calls)
        IN /\ ai.pc = "Returned"
           /\ ai.result = parseResponse(calls[k].raw)
           /\ k <= 4
           /\ ai.attempt = k
           /\ \A j \in 1..k :
                 <<calls[j].fileName, calls[j].content, calls[j].customGuidelines>> = ai.given
           /\ Len(ai.events) = 2 * k - 1
           /\ \A i \in 1..Len(ai.events) :
                 ai.events[i].kind = IF i % 2 = 1 THEN "call" ELSE "wait"
           /\ k = 3 => TotalWait(WaitEvents(ai)) >= 2000 + 4000

\* Attempts 1 and 2 were rate-limited and attempt 3 returned the fenced
\* JSON text with eight reviews; guidelines were given.
C17_Witness ==
    /\ SucceededAfterRateLimits(ai)
    /\ Len(CallEvents(ai)) = 3
    /\ ai.given[3] = "rules"
    /\ CallEvents(ai)[3].raw = Raw(FALSE, <<FenceJson, Space, ReviewsObject(Reviews8), Space, Fence>>)
    /\ ai.result = Reviews8

\* The error carries no rate-limit signal: no status 429, no statusCode 429
\* and no 429 in its message.
NoRateLimitSignal(err) ==
    /\ err.status # 429
    /\ err.statusCode # 429
    /\ \A p \in 1..(Len(err.message) - 2) :
          SubSeq(err.message, p, p + 2) # <<"4", "2", "9">>

\* C18: an error without a rate-limit signal, thrown by a provider call or by
\* the dispatch for an unsupported provider, is thrown on by reviewWithAI at
\* once, at whatever attempt: it is the last step of the invocation, with no
\* wait and no provider call after it.
C18_OtherErrorsRethrown ==
    \A i \in 1..Len(ai.events) :
        (ai.events[i].answer = "error" /\ NoRateLimitSignal(ai.events[i].err)) =>
            /\ i = Len(ai.events)
            /\ ai.pc = "Threw"
            /\ ai.error = ai.events[i].err
            /\ ai.attempt = ai.events[i].attempt

\* After two rate-limited attempts the third provider call failed with
\* status 500 and a message that holds 42 and 9 apart; the error was thrown.
C18_Witness ==
    /\ Len(CallEvents(ai)) = 3
    /\ Len(WaitEvents(ai)) = 2
    /\ ai.pc = "Threw"
    /\ ai.error = Err(500, undefined, <<"4","2"," ","9">>)

\* The number of the line of s that holds position p.
LineAt(s, p) == 1 + Cardinality({j \in 1..(p - 1) : s[j] = "\n"})

\* The character is one of the letters that mark the lines.
IsLetter(ch) == \E k \in 1..Len(Letters) : Letters[k] = ch

\* C19: for every kept line i of cleanedContent, lineMap[i-1] is the number,
\* counted from the top of the original content, of the line it came from:
\* what the kept line holds is held by that original line, and its letters
\* stand in the original on that line only. The example a, comment over
\* lines 2 to 5, d cleans to the lines a and d with lineMap [1, 6], and a
\* content without a last newline has the lineMap it has with one.
C19_LineMapOriginalLines ==
    doc.pc = "Cleaned" =>
        LET kept == split(doc.cleanedContent)
            original == split(doc.content)
        IN /\ \A i \in 1..Len(doc.lineMap) :
                 /\ i <= Len(kept)
                 /\ doc.lineMap[i] \in 1..Len(original)
                 /\ \A q \in 1..Len(kept[i]) :
                       /\ kept[i][q] \notin WS =>
                             \E p \in 1..Len(original[doc.lineMap[i]]) :
                                 original[doc.lineMap[i]][p] = kept[i][q]
                       /\ IsLetter(kept[i][q]) =>
                             \A p \in 1..Len(doc.content) :
                                 doc.content[p] = kept[i][q] =>
                                     LineAt(doc.content, p) = doc.lineMap[i]
           /\ doc.content = ExampleContent =>
                 /\ doc.cleanedContent = <<"a", "\n", "d">>
                 /\ doc.lineMap = <<1, 6>>
           /\ (doc.content = <<>> \/ doc.content[Len(doc.content)] # "\n") =>
                 cleanCodeContentWithMap(doc.content \o <<"\n">>, doc.path).lineMap
                     = doc.lineMap

\* The example of the specification was cleaned.
C19_Witness ==
    /\ doc.pc = "Cleaned"
    /\ doc.content = ExampleContent
    /\ doc.lineMap = <<1, 6>>

\* C20: the lineMap is strictly increasing, each of its entries is the number
\* of a line of the original content, and it has as many entries as the
\* cleaned content has non-blank lines.
C20_LineMapShape ==
    doc.pc = "Cleaned" =>
        /\ \A i, j \in 1..Len(doc.lineMap) : i < j => doc.lineMap[i] < doc.lineMap[j]
        /\ \A i \in 1..Len(doc.lineMap) : doc.lineMap[i] \in 1..SplitLength(doc.content)
        /\ Len(doc.lineMap) = NonBlankLineCount(doc.cleanedContent)

\* Three lines with a comment from the second into the third: the line 1
\* and what follows the comment on line 3 are kept.
C20_Witness ==
    /\ doc.pc = "Cleaned"
    /\ doc.content = <<"a", "\n", "/", "*", "b", "\n", "*", "/", "c">>
    /\ doc.lineMap = <<1, 3>>
    /\ doc.cleanedContent = <<"a", "\n", "c">>

\* A line that holds nothing but whitespace.
IsBlankLine(t) == \A q \in 1..Len(t) : t[q] \in WS

C22_LineCountPreserved ==
    doc.pc = "Cleaned" =>
        /\ SplitLength(doc.intermediate) = SplitLength(doc.content)
        /\ \A p \in 1..Len(doc.intermediate) :
               IsLetter(doc.intermediate[p]) =>
                   \A q \in 1..Len(doc.content) :
                       doc.content[q] = doc.intermediate[p] =>
                           LineAt(doc.content, q) = LineAt(doc.intermediate, p)

\* A Python file whose docstring runs from line 1 into line 2: what follows
\* the closing quotes stays on line 2.
C22_Witness ==
    /\ doc.pc = "Cleaned"
    /\ doc.path = <<"a", ".", "P", "Y">>
    /\ doc.content = <<"\"", "\"", "\"", "a", "\n", "\"", "\"", "\"", "b">>
    /\ doc.intermediate = <<"\n", "b">>
    /\ doc.lineMap = <<2>>

\* The delivery's shouldProcessPR call answered true.
PassedEligibility(r) == Answered(r.st, "shouldProcessPR", "true")

\* The comments of the host that the delivery d posted.
PostedBy(h, d) == {k \in 1..Len(h.comments) : h.comments[k].by = d}

C24_LockDoesNotExclude ==
    \A d \in Deliveries :
        /\ runs[d].st.endedAt # "Locking"
        /\ PassedEligibility(runs[d]) => runs[d].st.pc # "CheckingEligibility"
        /\ Cardinality(PostedBy(host, d))
              = Cardinality({i \in CallsOf(runs[d].st, "postComment") :
                                runs[d].st.calls[i].ret = "ok"})

\* Both deliveries got true before either lock was written, both locks were
\* written, both runs reviewed the file, posted the same comment and set the
\* final status: the pull request holds the comment twice.
C24_Witness ==
    /\ host.adapter = "azdo"
    /\ \A d \in Deliveries :
          /\ PassedEligibility(runs[d])
          /\ runs[d].locksBefore = 0
          /\ runs[d].st.locked
          /\ CallsOf(runs[d].st, "reviewWithAI") # {}
          /\ Finalized(runs[d].st)
          /\ runs[d].st.status = "commented"
    /\ Len(host.comments) = 2
    /\ host.comments[1].by # host.comments[2].by
    /\ host.comments[1].text = host.comments[2].text

\* C25: a run whose shouldProcessPR is called after another run's
\* setFinalStatus has completed, with any status, gets false and makes no
\* lock, no fetch, no review, no comment and no status write; from then on
\* the Azure DevOps vote is 10, 5 or -5 and never 0, and on GitHub a review
\* of the bot exists for the head commit.
C25_FinalStatusTurnsRedeliveryAway ==
    /\ \A d \in Deliveries :
          runs[d].finalsBefore > 0 =>
              /\ Answered(runs[d].st, "shouldProcessPR", "false")
              /\ runs[d].st.endedAt = "CheckingEligibility"
              /\ \A i \in 1..Len(runs[d].st.calls) :
                    runs[d].st.calls[i].op \in {"validateWebhook", "shouldProcessPR"}
    /\ (\E e \in Deliveries : Finalized(runs[e].st)) =>
          IF host.adapter = "azdo"
          THEN host.vote \in {voteMap.approved, voteMap.commented,
                              voteMap.changes_requested}
          ELSE "head" \in host.reviews

\* The first delivery's run approved the pull request; the second delivery,
\* arriving afterwards, was turned away at CheckingEligibility.
C25_Witness ==
    /\ host.adapter = "github"
    /\ Finalized(runs[1].st)
    /\ runs[1].st.status = "approved"
    /\ runs[2].finalsBefore = 1
    /\ Answered(runs[2].st, "shouldProcessPR", "false")
    /\ runs[2].st.pc = "Done"

\* The calls the loop makes for the changed files.
FileOps == {"getFileContent", "reviewWithAI"}

\* While the AI review of a file is out, retries and backoff waits
\* included, the last call the run has started is that review.
ReviewInFlight(st) ==
    st.pc \in {"AIReview", "Backoff"} =>
        /\ st.calls[Len(st.calls)].op = "reviewWithAI"
        /\ st.calls[Len(st.calls)].path = st.files[st.idx].path

\* C26: the files are processed one after the other. While the AI call of a
\* file is out, its retries and backoff waits included, the run starts no
\* other call and stays on that file; the loop moves on by one file, and
\* only when the inter-file delay of the file has elapsed (or the file was
\* ignored); the content fetch and the AI call of a file start only when
\* every file before it has its outcome.
C26_SerialFiles ==
    /\ [](ReviewInFlight(run))
    /\ [][/\ run.pc \in {"AIReview", "Backoff"} =>
                /\ run'.idx = run.idx
                /\ run'.calls = run.calls
          /\ (run.idx >= 1 /\ run'.idx # run.idx) =>
                /\ run'.idx = run.idx + 1
                /\ \/ run.pc = "InterFileDelay"
                   \/ run.pc = "PerFileLoop" /\ run.files[run.idx].path \in IgnoredPaths
          /\ (/\ Len(run'.calls) > Len(run.calls)
              /\ run.pc # "FetchingGuidelines"
              /\ run'.calls[Len(run'.calls)].op \in FileOps) =>
                /\ run.pc = "PerFileLoop"
                /\ Len(run.results) = run.idx - 1
                /\ run'.calls[Len(run'.calls)].path = run.files[run.idx].path
                /\ run'.idx = run.idx]_vars

\* The first file was reviewed and its delay has elapsed; the review of the
\* second file is in its second backoff wait.
C26_Witness ==
    /\ run.pc = "Backoff"
    /\ run.idx = 2
    /\ run.attempt = 2
    /\ Len(run.results) = 1
    /\ run.results[1].kind = "reviewed"

\* The calls that fetch the guidelines document.
GuidelineFetches(st) ==
    {i \in CallsOf(st, "getFileContent") : st.calls[i].path = GuidelinesPath}

\* The document the run fetched, when it fetched one that is not blank.
FetchedNonBlank(st) ==
    {st.calls[i].ret : i \in {k \in GuidelineFetches(st) :
        /\ st.calls[k].ret \notin {"throw", null}
        /\ Trim(DocChars(st.calls[k].ret)) # <<>>}}

\* C27: the guidelines document is fetched at most once, from the commit of
\* the first changed file and before any file is fetched or reviewed; the
\* fetch never ends the run; every AI prompt of the run has the default
\* rules when guidelines are not configured, the fetch threw, or the
\* document is empty or of whitespace only, and has the fetched document as
\* custom guidelines only when a non-blank document was fetched.
C27_GuidelinesOrDefaults ==
    /\ Cardinality(GuidelineFetches(run)) <= 1
    /\ \A i \in GuidelineFetches(run) :
          /\ run.calls[i].text = run.files[1].commitId
          /\ \A j \in 1..Len(run.calls) :
                (run.calls[j].op \in FileOps /\ j # i) => i < j
    /\ run.endedAt # "FetchingGuidelines"
    /\ \A j \in CallsOf(run, "reviewWithAI") :
          IF FetchedNonBlank(run) = {}
          THEN guidelinesSection(run.calls[j].text).rules = "default"
          ELSE /\ guidelinesSection(run.calls[j].text).rules = "custom"
               /\ guidelinesSection(run.calls[j].text).text \in FetchedNonBlank(run)

\* C28: in the PrReviewHook handler, where the AI is given the cleaned
\* content, the k-th postReview call of a file that was not red-flagged has
\* the line lineMap[L-1], L being the line of the k-th finding, whatever
\* line the AI returned.
C28_PostedAtOriginalLine ==
    ~hook.hasRedFlags =>
        \A k \in 1..Len(hook.posted) :
            /\ hook.aiReviews[k].line \in 1..Len(hook.lineMap)
            /\ hook.posted[k].line = hook.lineMap[hook.aiReviews[k].line]

\* The stages an error can leave executeReview from.
ThrowingStages == {"Validating", "CheckingEligibility", "FetchingFiles", "Posting",
                   "Finalizing"}

\* C29: every run ends: whatever the changed files are and whichever calls
\* of the host and of the AI succeed or fail, reviewPullRequest eventually
\* returns or lets an error out, and an error gets out only of a stage
\* other than the per-file loop.
C29_EveryRunTerminates ==
    /\ <>(run.pc = "Done" /\ run.outcome \in {"returned", "threw"})
    /\ [](run.outcome = "threw" => run.pc = "Done" /\ run.endedAt \in ThrowingStages)

\* A run whose first file used up its retries and whose second file could
\* not be fetched: it returned after setFinalStatus, with nothing to post.
C29_Witness ==
    /\ run.pc = "Done"
    /\ run.outcome = "returned"
    /\ run.endedAt = "Finalizing"
    /\ Len(run.results) = 2
    /\ run.results[1].kind = "rateLimitError"
    /\ run.results[2].kind = "fetchError"

\* The response is text between an opening and a closing fence.
Fenced(raw) ==
    /\ ~raw.isNull
    /\ Len(raw.text) >= 3
    /\ raw.text[1] \in {FenceJson, Fence}
    /\ raw.text[Len(raw.text)] = Fence

\* JSON.parse(text).reviews || [] for a text that is one JSON object, the
\* whitespace around it aside.
JsonReviews(text) ==
    LET json == trimPieces(text)
    IN IF jsonParses(json) /\ json[1].kind = "{reviews}" THEN json[1].reviews ELSE <<>>

\* C30: for a response that is a JSON text between fences (three backticks
\* with json, or three backticks, before it and three backticks after it),
\* reviewWithAI returns the list of reviews that parsing the JSON text
\* without the fences gives.
C30_FencedSameAsUnfenced ==
    (ai.pc = "Returned" /\ Fenced(ai.events[Len(ai.events)].raw)) =>
        ai.result = JsonReviews(SubSeq(ai.events[Len(ai.events)].raw.text, 2,
                                       Len(ai.events[Len(ai.events)].raw.text) - 1))

\* The run is at the head of the loop body, on a file of the ignore list.
AtIgnoredFile(st) ==
    st.pc = "PerFileLoop" /\ shouldIgnoreFile(st.files[st.idx].path)

\* Every changed file of the run is on the ignore list.
AllIgnored(st) ==
    /\ Len(st.files) > 0
    /\ \A k \in 1..Len(st.files) : shouldIgnoreFile(st.files[k].path)

\* C31: the step the loop takes for a file of the ignore list makes no call
\* (no getFileContent, no reviewWithAI), collects no comment, leaves
\* hasRedFlags and hasIssues as they were and waits no inter-file delay; it
\* only moves to the next file. A run all of whose changed files are ignored
\* never calls postComment and passes approved to setFinalStatus.
C31_IgnoredFileUntouched ==
    /\ [](AllIgnored(run) =>
            /\ CallsOf(run, "postComment") = {}
            /\ \A i \in CallsOf(run, "setFinalStatus") : run.calls[i].text = "approved")
    /\ [][AtIgnoredFile(run) =>
            /\ run'.calls = run.calls
            /\ run'.allComments = run.allComments
            /\ run'.hasRedFlags = run.hasRedFlags
            /\ run'.hasIssues = run.hasIssues
            /\ run'.delays = run.delays
            /\ run'.idx = run.idx + 1
            /\ run'.pc \in {"PerFileLoop", "Aggregating"}]_vars

\* A run whose only changed file is ignored has set its final status, after
\* the content of no file was fetched.
C31_Witness ==
    /\ AllIgnored(run)
    /\ run.pc = "Done"
    /\ Answered(run, "setFinalStatus", "ok")
    /\ run.delays = <<>>

\* The files of the loop that were not ignored and have their outcome.
Examined(st) ==
    {k \in 1..Len(st.results) : st.results[k].kind # "ignored"}

\* C32: a delay of 1000 ms has elapsed for every file that was not ignored,
\* whatever its outcome (reviewed, red-flagged, or failed with an error the
\* loop caught), before the loop examines the next file or the aggregation
\* begins: outside the delay itself the run has waited one delay per such
\* file, the outcome of such a file is always followed by the delay, and no
\* other wait is recorded.
C32_DelayAfterEveryFile ==
    /\ [](/\ \A k \in 1..Len(run.delays) : run.delays[k] = INTER_FILE_DELAY_MS
          /\ Len(run.delays) = Cardinality(Examined(run))
                                 - (IF run.pc = "InterFileDelay" THEN 1 ELSE 0))
    /\ [][Cardinality(Examined(run')) > Cardinality(Examined(run)) =>
             run'.pc = "InterFileDelay"]_vars

\* A run has aggregated after two files, one whose content fetch failed and
\* one that was reviewed or red-flagged, and has waited twice.
C32_Witness ==
    /\ run.pc \in {"Posting", "Finalizing", "Done"}
    /\ Len(run.delays) = 2
    /\ \E k \in Examined(run) : run.results[k].kind = "fetchError"
    /\ \E k \in Examined(run) : run.results[k].kind # "fetchError"

\* C33: when postComment throws for one of the comments kept for posting,
\* the run still calls postComment for each of the comments after it and
\* still calls setFinalStatus before it ends.
C33_PostFailureKeepsRest ==
    (run.pc = "Done" /\ Answered(run, "postComment", "throw")) =>
        /\ Cardinality(CallsOf(run, "postComment")) = Len(run.topComments)
        /\ CallsOf(run, "setFinalStatus") # {}

\* The red-flagged files of the run none of whose comments was passed to
\* postComment.
UnpostedRedFlags(st) ==
    {p \in RedFlaggedPaths(st) : \A i \in CallsOf(st, "postComment") : st.calls[i].path # p}

\* C34: when the run passes changes_requested to setFinalStatus, the
\* red-flag comment of every red-flagged file was passed to postComment in
\* the run.
C34_RedFlagAlwaysPosted ==
    (\E i \in CallsOf(run, "setFinalStatus") : run.calls[i].text = "changes_requested") =>
        UnpostedRedFlags(run) = {}

\* C34, amended: when the run passes changes_requested to setFinalStatus and
\* the red-flag comment of a file was not posted, the budget was filled by
\* critical comments: MAX_REVIEW_COMMENTS comments were posted, each of
\* severity critical. No red-flag comment is dropped while a comment of a
\* lower severity is posted.
C34_RedFlagDroppedOnlyForCriticals ==
    ((\E i \in CallsOf(run, "setFinalStatus") : run.calls[i].text = "changes_requested")
        /\ UnpostedRedFlags(run) # {}) =>
        /\ Cardinality(CallsOf(run, "postComment")) = MAX_REVIEW_COMMENTS
        /\ Len(run.topComments) = MAX_REVIEW_COMMENTS
        /\ \A k \in 1..Len(run.topComments) : run.topComments[k].severity = "critical"

\* A run set changes_requested after the red-flag comment of lib/big.ts was
\* collected behind the critical findings of src/a.ts, which filled the
\* budget: the red-flag comment was not posted.
C34_Witness ==
    /\ \E i \in CallsOf(run, "setFinalStatus") : run.calls[i].text = "changes_requested"
    /\ UnpostedRedFlags(run) = {"lib/big.ts"}
    /\ Cardinality(CallsOf(run, "postComment")) = MAX_REVIEW_COMMENTS

\* At least one file was not ignored, and the processing of every such file
\* threw an error that the loop caught.
AllExaminedFailed(st) ==
    /\ Examined(st) # {}
    /\ \A k \in Examined(st) : st.results[k].kind \in FailKinds

\* C35: when the loop is over and the processing of every file that was not
\* ignored failed with a caught error (of the content fetch, of the AI call,
\* or a rate-limit error past the retry budget), the run has collected no
\* comment and set no flag, calls postComment for nothing, and the status it
\* passes to setFinalStatus, which it calls before it ends, is approved.
C35_AllFailedApproved ==
    (LoopCompleted(run) /\ AllExaminedFailed(run)) =>
        /\ run.allComments = <<>>
        /\ ~run.hasRedFlags /\ ~run.hasIssues
        /\ CallsOf(run, "postComment") = {}
        /\ \A i \in CallsOf(run, "setFinalStatus") : run.calls[i].text = "approved"
        /\ run.pc = "Done" => CallsOf(run, "setFinalStatus") # {}

\* The content fetch of one file failed, the AI review of another ran out
\* of retries, and the run has set its final status.
C35_Witness ==
    /\ run.pc = "Done"
    /\ AllExaminedFailed(run)
    /\ \E k \in Examined(run) : run.results[k].kind = "fetchError"
    /\ \E k \in Examined(run) : run.results[k].kind = "rateLimitError"
    /\ Answered(run, "setFinalStatus", "ok")

\* C36: a run whose lockPR write succeeded and which returns normally has
\* called setFinalStatus, so that on Azure DevOps the vote -5 of the lock is
\* overwritten by the vote of a computed review status.
C36_LockOverwritten ==
    \A d \in Deliveries :
        (/\ runs[d].st.pc = "Done"
         /\ runs[d].st.outcome = "returned"
         /\ runs[d].st.locked) =>
            CallsOf(runs[d].st, "setFinalStatus") # {}

\* The answers of the requests a call has sent, in order.
Answers(p) == [k \in 1..Len(p.requests) |-> p.requests[k].answer]

\* The operations of the requests a call has sent, in order.
Apis(p) == [k \in 1..Len(p.requests) |-> p.requests[k].api]

C38_RangeNotInverted ==
    \A k \in 1..Len(post.requests) :
        LET request == post.requests[k]
        IN /\ (request.api = "threads" /\ request.line # undefined) =>
                 /\ request.line = post.endLine
                 /\ request.start <= request.line
                 /\ (post.startLine = undefined \/ post.startLine >= post.endLine) =>
                        request.start = post.endLine
                 /\ (TruthyNumber(post.startLine) /\ post.startLine < post.endLine) =>
                        request.start = post.startLine
           /\ (request.api = "pulls.createReviewComment" /\ request.start # undefined) =>
                 /\ post.startLine < post.endLine
                 /\ request.start = post.startLine
                 /\ request.line = post.endLine

\* postReview was called with a startLine after its endLine and has sent a
\* thread for the single line endLine.
C38_Witness ==
    /\ post.fn = "postReview"
    /\ post.startLine > post.endLine
    /\ Len(post.requests) = 1
    /\ post.requests[1].start = post.endLine
    /\ post.requests[1].line = post.endLine
    /\ post.endLine > 0

\* The stages at which a run returns early: the webhook is not one to react
\* to, the pull request is not to be processed, or no file has changed.
EarlyExits == {"Validating", "CheckingEligibility", "FetchingFiles"}

\* C39: the response of the GitHub webhook handler has status 500 exactly
\* when an error came out of the handling of the payload or out of
\* reviewPullRequest, and status 200 otherwise; a run that returned early at
\* Validating, at CheckingEligibility or on an empty change set is answered
\* with 200. The handler answers only when the review is over.
C39_ResponseStatus ==
    web.pc = "Responded" =>
        /\ web.status \in {200, 500}
        /\ web.status = 500 <=> (run.pc # "Done" \/ run.outcome = "threw")
        /\ run.pc # "Done" => run = InitRun
        /\ (run.pc = "Done" /\ run.outcome = "returned" /\ run.endedAt \in EarlyExits) =>
              web.status = 200

\* The handler answered 200 to a request whose pull request had no changed
\* file.
C39_Witness ==
    /\ web.pc = "Responded"
    /\ web.status = 200
    /\ run.endedAt = "FetchingFiles"
    /\ run.outcome = "returned"

====
